---- MODULE Spec2Model ----
(***************************************************************************)
(* Tag-based task scheduler of osp-magnum (task_enqueue,                   *)
(* task_list_available, task_start, task_finish) as a state machine.       *)
(*                                                                         *)
(* TaskTags is the static description (per-task tag bitsets, flat array    *)
(* of per-tag dependency lists); ExecutionContext holds the three counter  *)
(* arrays.  A tag bitset (tag_ints_per_task 64-bit words) is modelled as   *)
(* the set of its one bits; word-wise AND is set intersection.             *)
(*                                                                         *)
(* The planet skeleton of planet-a (IdRegistry, SubdivIdTree,              *)
(* SubdivSkeleton, SubdivTriangleSkeleton) is modelled next to it: an      *)
(* object is a record of its members, a std::vector a sequence (index i of *)
(* the code is index i + 1 of the sequence), and a member function an      *)
(* operator from the object before the call to the object after it and the *)
(* value returned.                                                         *)
(***************************************************************************)
EXTENDS Integers, FiniteSets, Sequences, TLC

\* ------------------------------------------------------------------ bounds
NumTags == 3
NumTasks == 2
\* stride of the flat dependency array (TaskTags::m_tagDependsPerTag)
m_tagDependsPerTag == 2
\* at most this many non-null entries in the whole dependency array
MaxDependEntries == 2
\* width of the unsigned counters: the code's unsigned int has 32 bits, the
\* model keeps UIntBits bits, more than any count a bounded run reaches, so
\* that only an underflow wraps (0 - 1 = 2^UIntBits - 1)
UIntBits == 4
\* cap on task_start calls per tag when the caller follows no protocol
MaxRunning == 2
\* calls of one run of a caller that follows no protocol
MaxAnyCalls == 3
\* enqueue calls of one drain run
MaxEnqueues == 2
\* high-water mark up to which a registry that grows by itself is followed
MaxIds == 3
\* largest argument of reserve, reserve_more and the reserving constructor
MaxReserve == 2
\* a std::vector that has to allocate may allocate more than it was asked
\* for: at most this many elements more
MaxSlack == 1
\* vertices a skeleton may hold, and deepest chunk-edge recursion
MaxVrtx == 5
MaxLevel == 3
\* triangle groups a skeleton may hold, and the vertices (the lowest ids)
\* their arrays are drawn from
MaxGroups == 1
MaxTriVrtx == 2
\* external holds one caller keeps on one vertex
MaxHolds == 2
\* calls of one run on a skeleton
MaxSkeletonCalls == 4

\* largest id given to a call that takes any id, and the calls made
MaxAnyId == 3
MaxTreeAnyCalls == 3

\* calls of one run of a caller that lists into its bitset as it is
MaxInPlaceCalls == 2

\* subdivision levels of a chunked mesh, and the chunks made in one
MaxChunkLevel == 2
MaxChunks == 3

\* triangle groups of a skeleton whose triangles are subdivided
MaxSubdivGroups == 3

\* largest sibling index given to tri_id (a uint8_t; siblings are 0 .. 3)
MaxSiblingArg == 7

\* children given to one vertex: one more than a uint8_t child count holds
MaxChildren == 256

\* frames the call stack holds before it overflows, and the vrtx_reserve /
\* vrtx_reserve_more calls of one run
MaxStackDepth == 4
MaxReserveCalls == 2

Tags == 0 .. (NumTags - 1)
Tasks == 0 .. (NumTasks - 1)
DependSlots == 0 .. (NumTags * m_tagDependsPerTag - 1)

\* lgrn::id_null<TaskTags::Tag>(): the reserved terminator of a dependency list
id_null == -1

\* unsigned arithmetic: ++ and -- wrap modulo 2^UIntBits
UIntMod == 2 ^ UIntBits
UInt(x) == x % UIntMod

\* marker for "no enqueue since the last finish"
NoQuery == {id_null}

VARIABLES
    m_taskTags,             \* TaskTags: task -> bitset of the tags it carries
    m_tagDepends,           \* TaskTags: flat array, m_tagDependsPerTag slots per tag
    m_taskQueuedCounts,     \* ExecutionContext: task -> queued count
    m_tagRunningCounts,     \* ExecutionContext: tag -> running count
    m_tagIncompleteCounts,  \* ExecutionContext: tag -> incomplete count
    tasksOut,               \* the caller's output bitset of task_list_available
    started,                \* caller: tasks it has started and not yet finished
    fresh,                  \* caller: tasksOut was listed after the last enqueue/finish
    owed,                   \* history: tasks queued by an enqueue, not finished since
    call,                   \* history: the last call and its arguments
    budget,                 \* calls the bound of the run still allows
    registry,               \* an IdRegistry: m_exists, m_deleted, capacity of m_exists
    NO_AUTO_RESIZE,         \* the template argument the registry was built with
    ret,                    \* history: the last registry call and what it returned
    live,                   \* history: ids create returned, not removed since
    removed,                \* history: ids removed, not created again, oldest first
    skeleton,               \* a SubdivTriangleSkeleton
    holds,                  \* history: vertex -> external holds outstanding
    firstChild,             \* history: parent pair -> first create_or_get call for it
    done,                   \* history: the last skeleton call and what it did
    mesh,                   \* a ChunkedTriangleMesh
    stack                   \* the call stack of a vrtx_reserve call, outermost first

tagsVars == <<m_taskTags, m_tagDepends>>
execVars == <<m_taskQueuedCounts, m_tagRunningCounts, m_tagIncompleteCounts>>
schedulerVars == <<m_taskTags, m_tagDepends, m_taskQueuedCounts, m_tagRunningCounts,
                   m_tagIncompleteCounts, tasksOut, started, fresh, owed, call>>
registryVars == <<registry, NO_AUTO_RESIZE, ret, live, removed>>
skeletonVars == <<skeleton, holds, firstChild, done, mesh, stack>>
vars == <<schedulerVars, budget, registryVars, skeletonVars>>

\* ------------------------------------------------------------ TaskTags data
\* The dependency list of a tag: the slots tag*stride .. tag*stride+stride-1.
\* Lists are filled front to back, so null entries are trailing.
DependsWellFormed(S) ==
    /\ Cardinality(S) <= MaxDependEntries
    /\ \A i \in S : (i % m_tagDependsPerTag # 0) => (i - 1) \in S

\* the tags a tag directly declares as dependencies
DeclaredDepends(tag) ==
    {m_tagDepends[tag * m_tagDependsPerTag + i] : i \in 0 .. (m_tagDependsPerTag - 1)}
        \ {id_null}

\* ------------------------------------------------------------- task_enqueue
\* variant without the queued == 0 gate
EnqueueMatches_NoGate(query) ==
    {t \in Tasks : (query \cap m_taskTags[t]) # {}}

\* tasks the loop of task_enqueue moves from queued == 0 to queued == 1
EnqueueMatches(query) ==
    {t \in Tasks : m_taskQueuedCounts[t] = 0 /\ (query \cap m_taskTags[t]) # {}}

\* variant counting only the tags that are present in the query
task_enqueue_QueryTagsOnly(query) ==
    LET newly == {t \in Tasks : m_taskQueuedCounts[t] = 0
                                /\ (query \cap m_taskTags[t]) # {}} IN
    /\ m_taskQueuedCounts' =
           [t \in Tasks |-> IF t \in newly THEN 1 ELSE m_taskQueuedCounts[t]]
    /\ m_tagIncompleteCounts' =
           [tag \in Tags |->
               UInt(m_tagIncompleteCounts[tag]
                    + Cardinality({t \in newly : tag \in (m_taskTags[t] \cap query)}))]
    /\ UNCHANGED m_tagRunningCounts

task_enqueue(query) ==
    LET newly == EnqueueMatches(query) IN
    /\ m_taskQueuedCounts' =
           [t \in Tasks |-> IF t \in newly THEN 1 ELSE m_taskQueuedCounts[t]]
    /\ m_tagIncompleteCounts' =
           [tag \in Tags |->
               UInt(m_tagIncompleteCounts[tag]
                    + Cardinality({t \in newly : tag \in m_taskTags[t]}))]
    /\ UNCHANGED m_tagRunningCounts

\* ------------------------------------------------------ task_list_available
\* variant matching when any tag of the task is allowed
compare_tags_AnyBit(mask, taskTags) == (mask \cap taskTags) # {}

\* No match if a 1 bit in taskTags corresponds with a 0 in mask
compare_tags(mask, taskTags) == (mask \cap taskTags) = taskTags

\* variant reading the running counts instead of the incomplete counts
RECURSIVE DependsSatisfied_Running(_, _)
DependsSatisfied_Running(tag, i) ==
    IF i = m_tagDependsPerTag THEN TRUE
    ELSE LET dependTag == m_tagDepends[tag * m_tagDependsPerTag + i] IN
         IF dependTag = id_null THEN TRUE
         ELSE IF m_tagRunningCounts[dependTag] # 0 THEN FALSE
         ELSE DependsSatisfied_Running(tag, i + 1)

\* variant following the dependencies of a dependency, depth levels deep
RECURSIVE DependsSatisfiedDeep(_, _, _)
DependsSatisfiedDeep(tag, i, depth) ==
    IF i = m_tagDependsPerTag THEN TRUE
    ELSE LET dependTag == m_tagDepends[tag * m_tagDependsPerTag + i] IN
         IF dependTag = id_null THEN TRUE
         ELSE IF m_tagIncompleteCounts[dependTag] # 0 THEN FALSE
         ELSE IF depth > 0 /\ ~DependsSatisfiedDeep(dependTag, 0, depth - 1) THEN FALSE
         ELSE DependsSatisfiedDeep(tag, i + 1, depth)

DependsSatisfied_Transitive(tag, i) == DependsSatisfiedDeep(tag, i, NumTags)

\* the inner loop over one tag's dependency slots, from slot i on
RECURSIVE DependsSatisfied(_, _)
DependsSatisfied(tag, i) ==
    IF i = m_tagDependsPerTag THEN TRUE
    ELSE LET dependTag == m_tagDepends[tag * m_tagDependsPerTag + i] IN
         IF dependTag = id_null THEN TRUE
         ELSE IF m_tagIncompleteCounts[dependTag] # 0 THEN FALSE
         ELSE DependsSatisfied(tag, i + 1)

\* 1 = allowed (default), 0 = not allowed
AllowedMask == {tag \in Tags : DependsSatisfied(tag, 0)}

\* variant that writes the bitset anew
task_list_available_Overwrite(prior) ==
    {t \in Tasks : /\ m_taskQueuedCounts[t] # 0
                    /\ compare_tags(AllowedMask, m_taskTags[t])}

\* the contents of tasksOut after the call, given its contents before
task_list_available(prior) ==
    prior \cup {t \in Tasks : /\ m_taskQueuedCounts[t] # 0
                              /\ compare_tags(AllowedMask, m_taskTags[t])}

\* --------------------------------------------------------------- task_start
\* variant counting the start on every tag, not only the task's own
task_start_AllTags(task) ==
    /\ m_tagRunningCounts' =
           [tag \in Tags |-> UInt(m_tagRunningCounts[tag] + 1)]
    /\ UNCHANGED <<m_taskQueuedCounts, m_tagIncompleteCounts>>

\* variant marking a tag as running instead of counting the start
task_start_SetOne(task) ==
    /\ m_tagRunningCounts' =
           [tag \in Tags |-> IF tag \in m_taskTags[task]
                             THEN 1
                             ELSE m_tagRunningCounts[tag]]
    /\ UNCHANGED <<m_taskQueuedCounts, m_tagIncompleteCounts>>

task_start(task) ==
    /\ m_tagRunningCounts' =
           [tag \in Tags |-> IF tag \in m_taskTags[task]
                             THEN UInt(m_tagRunningCounts[tag] + 1)
                             ELSE m_tagRunningCounts[tag]]
    /\ UNCHANGED <<m_taskQueuedCounts, m_tagIncompleteCounts>>

\* -------------------------------------------------------------- task_finish
\* variant that forgets to decrement the incomplete counts
task_finish_KeepIncomplete(task) ==
    /\ m_taskQueuedCounts' =
           [m_taskQueuedCounts EXCEPT ![task] = UInt(@ - 1)]
    /\ m_tagRunningCounts' =
           [tag \in Tags |-> IF tag \in m_taskTags[task]
                             THEN UInt(m_tagRunningCounts[tag] - 1)
                             ELSE m_tagRunningCounts[tag]]
    /\ UNCHANGED m_tagIncompleteCounts

\* variant that forgets to decrement the running counts
task_finish_KeepRunning(task) ==
    /\ m_taskQueuedCounts' =
           [m_taskQueuedCounts EXCEPT ![task] = UInt(@ - 1)]
    /\ m_tagIncompleteCounts' =
           [tag \in Tags |-> IF tag \in m_taskTags[task]
                             THEN UInt(m_tagIncompleteCounts[tag] - 1)
                             ELSE m_tagIncompleteCounts[tag]]
    /\ UNCHANGED m_tagRunningCounts

\* variant that leaves the task's queued count alone
task_finish_KeepQueued(task) ==
    /\ m_tagRunningCounts' =
           [tag \in Tags |-> IF tag \in m_taskTags[task]
                             THEN UInt(m_tagRunningCounts[tag] - 1)
                             ELSE m_tagRunningCounts[tag]]
    /\ m_tagIncompleteCounts' =
           [tag \in Tags |-> IF tag \in m_taskTags[task]
                             THEN UInt(m_tagIncompleteCounts[tag] - 1)
                             ELSE m_tagIncompleteCounts[tag]]
    /\ UNCHANGED m_taskQueuedCounts

task_finish(task) ==
    /\ m_taskQueuedCounts' =
           [m_taskQueuedCounts EXCEPT ![task] = UInt(@ - 1)]
    /\ m_tagRunningCounts' =
           [tag \in Tags |-> IF tag \in m_taskTags[task]
                             THEN UInt(m_tagRunningCounts[tag] - 1)
                             ELSE m_tagRunningCounts[tag]]
    /\ m_tagIncompleteCounts' =
           [tag \in Tags |-> IF tag \in m_taskTags[task]
                             THEN UInt(m_tagIncompleteCounts[tag] - 1)
                             ELSE m_tagIncompleteCounts[tag]]

\* --------------------------------------------------------------- IdRegistry
\* std::vector::resize: cut to n elements, or fill up to n with value
Resize(seq, n, value) ==
    IF n <= Len(seq) THEN SubSeq(seq, 1, n)
    ELSE seq \o [i \in 1 .. (n - Len(seq)) |-> value]

\* IdRegistry(): two empty vectors; IdRegistry(capacity) reserves first
IdRegistryNew(cap) == [m_exists |-> <<>>, m_deleted |-> <<>>, capacity |-> cap]

size_required(reg) == Len(reg.m_exists)

capacity(reg) == reg.capacity

\* m_exists.reserve(n): no effect unless n exceeds the capacity
reserve(reg, n, slack) ==
    IF n > reg.capacity THEN [reg EXCEPT !.capacity = n + slack] ELSE reg

reserve_more(reg, n, slack) ==
    reserve(reg, n + Len(reg.m_exists) - Len(reg.m_deleted), slack)

\* exists(id): the id is below the high-water mark and its bit is set
exists(reg, id) ==
    /\ id >= 0
    /\ id < Len(reg.m_exists)
    /\ reg.m_exists[id + 1]

\* variant that forgets to take the reused id off the freed stack
create_NoPop(reg, noAutoResize, slack) ==
    IF reg.m_deleted # <<>>
    THEN LET id == reg.m_deleted[Len(reg.m_deleted)] IN
         [reg |-> [reg EXCEPT !.m_exists[id + 1] = TRUE],
          id |-> id, threw |-> FALSE]
    ELSE IF noAutoResize /\ Len(reg.m_exists) = reg.capacity
    THEN [reg |-> reg, id |-> id_null, threw |-> TRUE]
    ELSE [reg |-> [reg EXCEPT
                      !.m_exists = Append(@, TRUE),
                      !.capacity = IF Len(reg.m_exists) = @
                                   THEN Len(reg.m_exists) + 1 + slack ELSE @],
          id |-> Len(reg.m_exists), threw |-> FALSE]

\* variant reusing the oldest freed id instead of the newest
create_Fifo(reg, noAutoResize, slack) ==
    IF reg.m_deleted # <<>>
    THEN LET id == reg.m_deleted[1] IN
         [reg |-> [reg EXCEPT !.m_deleted = Tail(@),
                              !.m_exists[id + 1] = TRUE],
          id |-> id, threw |-> FALSE]
    ELSE IF noAutoResize /\ Len(reg.m_exists) = reg.capacity
    THEN [reg |-> reg, id |-> id_null, threw |-> TRUE]
    ELSE [reg |-> [reg EXCEPT
                      !.m_exists = Append(@, TRUE),
                      !.capacity = IF Len(reg.m_exists) = @
                                   THEN Len(reg.m_exists) + 1 + slack ELSE @],
          id |-> Len(reg.m_exists), threw |-> FALSE]

\* variant testing the capacity before it looks at the freed stack
create_CapacityFirst(reg, noAutoResize, slack) ==
    IF noAutoResize /\ Len(reg.m_exists) = reg.capacity
    THEN [reg |-> reg, id |-> id_null, threw |-> TRUE]
    ELSE IF reg.m_deleted # <<>>
    THEN LET id == reg.m_deleted[Len(reg.m_deleted)] IN
         [reg |-> [reg EXCEPT !.m_deleted = SubSeq(@, 1, Len(@) - 1),
                              !.m_exists[id + 1] = TRUE],
          id |-> id, threw |-> FALSE]
    ELSE [reg |-> [reg EXCEPT
                      !.m_exists = Append(@, TRUE),
                      !.capacity = IF Len(reg.m_exists) = @
                                   THEN Len(reg.m_exists) + 1 + slack ELSE @],
          id |-> Len(reg.m_exists), threw |-> FALSE]

\* create(): reuse the id on top of the freed stack, else throw if growth is
\* disabled and the vector is full, else append (push_back allocates when
\* size == capacity).  Yields the registry after the call, the id returned
\* and whether the call threw.
create(reg, noAutoResize, slack) ==
    IF reg.m_deleted # <<>>
    THEN LET id == reg.m_deleted[Len(reg.m_deleted)] IN
         [reg |-> [reg EXCEPT !.m_deleted = SubSeq(@, 1, Len(@) - 1),
                              !.m_exists[id + 1] = TRUE],
          id |-> id, threw |-> FALSE]
    ELSE IF noAutoResize /\ Len(reg.m_exists) = reg.capacity
    THEN [reg |-> reg, id |-> id_null, threw |-> TRUE]
    ELSE [reg |-> [reg EXCEPT
                      !.m_exists = Append(@, TRUE),
                      !.capacity = IF Len(reg.m_exists) = @
                                   THEN Len(reg.m_exists) + 1 + slack ELSE @],
          id |-> Len(reg.m_exists), threw |-> FALSE]

\* variant that frees the slot without looking at its liveness bit
remove_Unchecked(reg, id) ==
    IF id >= Len(reg.m_exists)
    THEN [reg |-> [reg EXCEPT !.m_deleted = Append(@, id)], threw |-> FALSE]
    ELSE [reg |-> [reg EXCEPT !.m_exists[id + 1] = FALSE,
                              !.m_deleted = Append(@, id)],
          threw |-> FALSE]

\* remove(id): an id that is not live is a LivenessViolation and changes
\* nothing; a live id gets its bit cleared and is pushed on the freed stack
remove(reg, id) ==
    IF ~exists(reg, id)
    THEN [reg |-> reg, threw |-> TRUE]
    ELSE [reg |-> [reg EXCEPT !.m_exists[id + 1] = FALSE,
                              !.m_deleted = Append(@, id)],
          threw |-> FALSE]

\* ------------------------------------------------------------- SubdivIdTree
\* uint8_t arithmetic: ++ and -- wrap modulo 256
UInt8(x) == x % 256

\* variant keeping the order of the arguments
hash_id_combination_Ordered(a, b) == <<a, b>>

\* hash_id_combination: the 64-bit word, written as <<high half, low half>>:
\* the larger id in the low half, the smaller in the high half
hash_id_combination(a, b) ==
    LET ls == IF a > b THEN a ELSE b
        ms == IF a > b THEN b ELSE a
    IN  <<ms, ls>>

\* x | y on unsigned words
RECURSIVE BitOr(_, _)
BitOr(x, y) ==
    IF x = 0 THEN y
    ELSE IF y = 0 THEN x
    ELSE (IF x % 2 = 1 \/ y % 2 = 1 THEN 1 ELSE 0) + 2 * BitOr(x \div 2, y \div 2)

\* combination_t: an unsigned word twice as wide as an id (uint64_t for
\* 32-bit ids)
CombinationMod == UIntMod * UIntMod

combination_t(x) == x % CombinationMod

\* x << n on a combination_t: the bits shifted out at the top are lost
ShiftLeft(x, n) == (x * 2 ^ n) % CombinationMod

\* variant that leaves the smaller id where it is
hash_id_combination_int_NoShift(a, b) ==
    LET ls == IF a > b THEN a ELSE b
        ms == IF a > b THEN b ELSE a
    IN  BitOr(combination_t(ls), combination_t(ms))

\* hash_id_combination(id_int_t a, id_int_t b): the word itself,
\* combination_t(ls) | (combination_t(ms) << (sizeof(id_int_t) * 8))
hash_id_combination_int(a, b) ==
    LET ls == IF a > b THEN a ELSE b
        ms == IF a > b THEN b ELSE a
    IN  BitOr(combination_t(ls), ShiftLeft(combination_t(ms), UIntBits))

\* SubdivIdTree(): an IdRegistry (the base class) and three empty containers
SubdivIdTreeNew ==
    [m_exists |-> <<>>, m_deleted |-> <<>>, capacity |-> 0,
     m_parentsToId |-> <<>>, m_idToParents |-> <<>>, m_idChildCount |-> <<>>]

\* create_root(): a new id with child count 0
create_root(tree, slack) ==
    LET r == create(tree, FALSE, slack)
        t == r.reg
    IN  [tree |-> [t EXCEPT !.m_idChildCount =
                       [Resize(@, size_required(t), 0) EXCEPT ![r.id + 1] = 0]],
         id |-> r.id]

\* m_idChildCount[size_t(p)] ++.  The vector is indexed without a check: an
\* index past its end is undefined behaviour, and this is the outcome in
\* which the write hits no element of the vector and the call goes on (the
\* calling action has the outcome in which the program is terminated)
ChildCountIncrement(count, p) ==
    IF p < Len(count) THEN [count EXCEPT ![p + 1] = UInt8(@ + 1)] ELSE count

\* variant that makes a new child whether or not the pair has one
create_or_get_AlwaysNew(tree, a, b, slack) ==
    LET combination == hash_id_combination(a, b)
        r == create_root(tree, slack)
        t1 == [r.tree EXCEPT
                  !.m_parentsToId = (combination :> r.id) @@ @,
                  !.m_idToParents =
                      [Resize(@, size_required(r.tree), <<0, 0>>)
                          EXCEPT ![r.id + 1] = combination]]
        t2 == [t1 EXCEPT !.m_idChildCount = ChildCountIncrement(@, a)]
        t3 == [t2 EXCEPT !.m_idChildCount = ChildCountIncrement(@, b)]
    IN  [tree |-> t3, id |-> r.id, success |-> TRUE]

\* create_or_get(a, b): try_emplace under the combination; if the place was
\* free, create the id, record its parents and count it as a child of both
create_or_get(tree, a, b, slack) ==
    LET combination == hash_id_combination(a, b) IN
    IF combination \in DOMAIN tree.m_parentsToId
    THEN [tree |-> tree, id |-> tree.m_parentsToId[combination], success |-> FALSE]
    ELSE LET r == create_root(tree, slack)
             t1 == [r.tree EXCEPT
                       !.m_parentsToId = (combination :> r.id) @@ @,
                       !.m_idToParents =
                           [Resize(@, size_required(r.tree), <<0, 0>>)
                               EXCEPT ![r.id + 1] = combination]]
             t2 == [t1 EXCEPT !.m_idChildCount = ChildCountIncrement(@, a)]
             t3 == [t2 EXCEPT !.m_idChildCount = ChildCountIncrement(@, b)]
         IN  [tree |-> t3, id |-> r.id, success |-> TRUE]

\* ------------------------------------ SubdivSkeleton, SubdivTriangleSkeleton
\* a default-constructed SkTriGroup, as m_triData.resize leaves it
SkTriGroupNew ==
    [m_triangles |-> [i \in 1 .. 4 |-> [m_vertices |-> <<0, 0, 0>>,
                                        m_children |-> id_null]],
     m_parent |-> 0, m_depth |-> 0]

\* SubdivTriangleSkeleton(): every member default-constructed
SubdivTriangleSkeletonNew ==
    [m_vrtxIdTree |-> SubdivIdTreeNew, m_vrtxRefCount |-> <<>>,
     m_triIds |-> IdRegistryNew(0), m_triData |-> <<>>, m_triRefCount |-> <<>>]

vrtx_create_root(sk, slack) ==
    LET r == create_root(sk.m_vrtxIdTree, slack) IN
    [sk |-> [sk EXCEPT
                !.m_vrtxIdTree = r.tree,
                !.m_vrtxRefCount =
                    [Resize(@, size_required(r.tree), 0) EXCEPT ![r.id + 1] = 0]],
     id |-> r.id]

\* variant that zeroes the reference count of the child it returns, new or not
vrtx_create_or_get_child_ResetAlways(sk, a, b, slack) ==
    LET r == create_or_get(sk.m_vrtxIdTree, a, b, slack) IN
    [sk |-> [sk EXCEPT
                !.m_vrtxIdTree = r.tree,
                !.m_vrtxRefCount =
                    [Resize(@, size_required(r.tree), 0) EXCEPT ![r.id + 1] = 0]],
     id |-> r.id, created |-> r.success]

\* vrtx_create_or_get_child(a, b); created is the flag create_or_get gave
vrtx_create_or_get_child(sk, a, b, slack) ==
    LET r == create_or_get(sk.m_vrtxIdTree, a, b, slack) IN
    [sk |-> IF r.success
            THEN [sk EXCEPT
                     !.m_vrtxIdTree = r.tree,
                     !.m_vrtxRefCount =
                         [Resize(@, size_required(r.tree), 0) EXCEPT ![r.id + 1] = 0]]
            ELSE [sk EXCEPT !.m_vrtxIdTree = r.tree],
     id |-> r.id, created |-> r.success]

vrtx_refcount_add(sk, id) ==
    [sk EXCEPT !.m_vrtxRefCount[id + 1] = UInt8(@ + 1)]

vrtx_refcount_remove(sk, id) ==
    [sk EXCEPT !.m_vrtxRefCount[id + 1] = UInt8(@ - 1)]

tri_refcount_add(sk, id) ==
    [sk EXCEPT !.m_triRefCount[id + 1] = UInt8(@ + 1)]

tri_refcount_remove(sk, id) ==
    [sk EXCEPT !.m_triRefCount[id + 1] = UInt8(@ - 1)]

\* tri_group_id, tri_sibling_index, tri_id: uint32_t arithmetic (UInt keeps
\* its width), the sibling index a uint8_t
tri_group_id(id) == id \div 4

tri_sibling_index(id) == UInt8(id % 4)

\* variant dropping the sibling index
tri_id_NoSibling(id, siblingIndex) == UInt(id * 4)

tri_id(id, siblingIndex) == UInt(id * 4 + siblingIndex)

\* tri_at(triId): the triangle of an id
tri_at(sk, triId) ==
    sk.m_triData[tri_group_id(triId) + 1].m_triangles[tri_sibling_index(triId) + 1]

\* rOut[index] = mid: st after the write, with the record of the call
\* r = vrtx_create_or_get_child(a, b) and of the write
WriteMid(st, r, a, b, index) ==
    [sk |-> r.sk,
     rOut |-> [st.rOut EXCEPT ![index + 1] = r.id],
     written |-> [st.written EXCEPT ![index + 1] = @ + 1],
     log |-> Append(st.log, [a |-> a, b |-> b, id |-> r.id, fresh |-> r.created])]

\* variant whose second recursion repeats the first half's endpoints
RECURSIVE vrtx_create_chunk_edge_recurse_SameHalf(_, _, _, _, _, _, _)
vrtx_create_chunk_edge_recurse_SameHalf(st, level, a, b, begin, size, slack) ==
    IF level = 0 THEN st
    ELSE LET halfSize == size \div 2 IN
         CHOOSE st3 \in UNION {
             {vrtx_create_chunk_edge_recurse_SameHalf(
                  st2, level - 1, a, r.id, begin + halfSize, size - halfSize, slack)
                : st2 \in {vrtx_create_chunk_edge_recurse_SameHalf(
                               WriteMid(st, r, a, b, begin + halfSize),
                               level - 1, a, r.id, begin, halfSize, slack)}}
             : r \in {vrtx_create_or_get_child(st.sk, a, b, slack)}} : TRUE

\* vrtx_create_chunk_edge_recurse(level, a, b, rOut).  st carries the
\* skeleton, the caller's array and, as a record of the call, how often each
\* slot was written and the vrtx_create_or_get_child calls made.  rOut is
\* the view of size elements from index begin of the array:
\* rOut.prefix(halfSize) is its first halfSize elements, rOut.suffix(halfSize)
\* the elements from index halfSize to its end.  r is the child and its
\* flag (mid = r.id), st2 the state after the first recursive call, st3 the
\* state after the second; each is bound to the one value it has.
RECURSIVE vrtx_create_chunk_edge_recurse(_, _, _, _, _, _, _)
vrtx_create_chunk_edge_recurse(st, level, a, b, begin, size, slack) ==
    IF level = 0 THEN st
    ELSE LET halfSize == size \div 2 IN
         CHOOSE st3 \in UNION {
             {vrtx_create_chunk_edge_recurse(
                  st2, level - 1, r.id, b, begin + halfSize, size - halfSize, slack)
                : st2 \in {vrtx_create_chunk_edge_recurse(
                               WriteMid(st, r, a, b, begin + halfSize),
                               level - 1, a, r.id, begin, halfSize, slack)}}
             : r \in {vrtx_create_or_get_child(st.sk, a, b, slack)}} : TRUE

\* the twelve vertex ids of a group's array, triangle by triangle
GroupVertices(vertices) ==
    [k \in 1 .. 12 |-> vertices[((k - 1) \div 3) + 1][((k - 1) % 3) + 1]]

\* vrtx_refcount_add for the ids of a sequence, from its element k on
RECURSIVE RefcountAddAll(_, _, _)
RefcountAddAll(sk, ids, k) ==
    IF k > Len(ids) THEN sk
    ELSE RefcountAddAll(vrtx_refcount_add(sk, ids[k]), ids, k + 1)

\* m_triData.resize and m_triRefCount.resize to the size m_triIds requires
tri_group_resize_fit_ids(sk) ==
    [sk EXCEPT
        !.m_triData = Resize(@, size_required(sk.m_triIds), SkTriGroupNew),
        !.m_triRefCount = Resize(@, size_required(sk.m_triIds) * 4, 0)]

\* variant holding each triangle's first vertex only
tri_group_create_FirstVertex(sk, depth, parent, vertices, slack) ==
    LET r == create(sk.m_triIds, FALSE, slack)
        sk1 == tri_group_resize_fit_ids([sk EXCEPT !.m_triIds = r.reg])
        rGroup == [m_triangles |-> [i \in 1 .. 4 |-> [m_vertices |-> vertices[i],
                                                      m_children |-> id_null]],
                   m_parent |-> parent, m_depth |-> depth]
        sk2 == [sk1 EXCEPT !.m_triData[r.id + 1] = rGroup]
    IN  [sk |-> RefcountAddAll(sk2, [i \in 1 .. 4 |-> vertices[i][1]], 1),
         id |-> r.id]

\* tri_group_create(depth, parent, vertices)
tri_group_create(sk, depth, parent, vertices, slack) ==
    LET r == create(sk.m_triIds, FALSE, slack)
        sk1 == tri_group_resize_fit_ids([sk EXCEPT !.m_triIds = r.reg])
        rGroup == [m_triangles |-> [i \in 1 .. 4 |-> [m_vertices |-> vertices[i],
                                                      m_children |-> id_null]],
                   m_parent |-> parent, m_depth |-> depth]
        sk2 == [sk1 EXCEPT !.m_triData[r.id + 1] = rGroup]
    IN  [sk |-> RefcountAddAll(sk2, GroupVertices(vertices), 1),
         id |-> r.id]

\* ------------------------------------------------------- ChunkedTriangleMesh
\* a mesh of subdivision level level, no chunk and no shared vertex in it
ChunkedTriangleMeshNew(level) ==
    [m_level |-> level,
     m_chunkIds |-> IdRegistryNew(0), m_chunkShared |-> <<>>,
     m_sharedIds |-> IdRegistryNew(0), m_sharedToSkel |-> <<>>,
     m_skelToShared |-> <<>>, m_sharedRefCount |-> <<>>]

\* variant that makes a shared vertex for every mention of a skeleton vertex
shared_get_or_create_NoReuse(st, skVrtx, slack) ==
    LET r == create(st.mesh.m_sharedIds, FALSE, slack)
        n == size_required(r.reg)
    IN  [mesh |-> [st.mesh EXCEPT
                      !.m_sharedIds = r.reg,
                      !.m_sharedToSkel = [Resize(@, n, id_null) EXCEPT ![r.id + 1] = skVrtx],
                      !.m_sharedRefCount = [Resize(@, n, 0) EXCEPT ![r.id + 1] = 1],
                      !.m_skelToShared = (skVrtx :> r.id) @@ @],
         shared |-> Append(st.shared, r.id)]

\* the SharedVrtxId of a skeleton vertex: the one the reverse map has, its
\* reference count incremented, else a new one with reference count 1.  st
\* is the mesh and the shared vertices of the chunk so far.
shared_get_or_create(st, skVrtx, slack) ==
    IF skVrtx \in DOMAIN st.mesh.m_skelToShared
    THEN LET id == st.mesh.m_skelToShared[skVrtx] IN
         [mesh |-> [st.mesh EXCEPT !.m_sharedRefCount[id + 1] = @ + 1],
          shared |-> Append(st.shared, id)]
    ELSE LET r == create(st.mesh.m_sharedIds, FALSE, slack)
             n == size_required(r.reg)
         IN  [mesh |-> [st.mesh EXCEPT
                           !.m_sharedIds = r.reg,
                           !.m_sharedToSkel = [Resize(@, n, id_null) EXCEPT ![r.id + 1] = skVrtx],
                           !.m_sharedRefCount = [Resize(@, n, 0) EXCEPT ![r.id + 1] = 1],
                           !.m_skelToShared = (skVrtx :> r.id) @@ @],
              shared |-> Append(st.shared, r.id)]

\* shared_get_or_create for the vertices of a sequence, from its element k on
RECURSIVE SharedAll(_, _, _, _)
SharedAll(st, ids, k, slack) ==
    IF k > Len(ids) THEN st
    ELSE CHOOSE out \in {SharedAll(st2, ids, k + 1, slack)
                            : st2 \in {shared_get_or_create(st, ids[k], slack)}} : TRUE

\* chunk_create(skeleton, center, edgeA, edgeB, edgeC): a chunk whose shared
\* vertices are the three corners of the triangle and the vertices of the
\* three edges
chunk_create(m, sk, center, edgeA, edgeB, edgeC, slack) ==
    LET r == create(m.m_chunkIds, FALSE, slack)
        st0 == [mesh |-> [m EXCEPT !.m_chunkIds = r.reg], shared |-> <<>>]
    IN  CHOOSE out \in
            {[mesh |-> [st.mesh EXCEPT
                           !.m_chunkShared =
                               [Resize(@, size_required(r.reg), <<>>)
                                   EXCEPT ![r.id + 1] = st.shared]],
              id |-> r.id]
               : st \in {SharedAll(st0, tri_at(sk, center).m_vertices
                                            \o edgeA \o edgeB \o edgeC, 1, slack)}} : TRUE

\* ---------------------------------------------------------------- initial
\* no registry call has been made yet
RegistryUnused ==
    /\ ret = [op |-> "init", id |-> id_null, threw |-> FALSE]
    /\ live = {}
    /\ removed = <<>>

\* the registry while the scheduler is followed: default-constructed, unused
RegistryIdle ==
    /\ registry = IdRegistryNew(0)
    /\ NO_AUTO_RESIZE = FALSE
    /\ RegistryUnused

\* the scheduler while another object is followed: no tags, no tasks queued
SchedulerIdle ==
    /\ m_taskTags = [t \in Tasks |-> {}]
    /\ m_tagDepends = [i \in DependSlots |-> id_null]
    /\ m_taskQueuedCounts = [t \in Tasks |-> 0]
    /\ m_tagRunningCounts = [tag \in Tags |-> 0]
    /\ m_tagIncompleteCounts = [tag \in Tags |-> 0]
    /\ tasksOut = {}
    /\ started = {}
    /\ fresh = FALSE
    /\ owed = {}
    /\ call = [op |-> "init", task |-> id_null, query |-> NoQuery, repeat |-> FALSE]

\* a skeleton as constructed, no call made on it yet
NoCall ==
    [op |-> "init", a |-> id_null, b |-> id_null, level |-> 0, id |-> id_null,
     before |-> 0, rOut |-> <<>>, written |-> <<>>, log |-> <<>>]

SkeletonNew ==
    /\ skeleton = SubdivTriangleSkeletonNew
    /\ holds = <<>>
    /\ firstChild = <<>>
    /\ done = NoCall
    /\ mesh = ChunkedTriangleMeshNew(1)
    /\ stack = <<>>

InitState ==
    /\ m_taskTags \in [Tasks -> SUBSET Tags]
    /\ \E S \in SUBSET DependSlots :
          /\ DependsWellFormed(S)
          /\ \E f \in [S -> Tags] :
                m_tagDepends = [i \in DependSlots |-> IF i \in S THEN f[i] ELSE id_null]
    /\ m_taskQueuedCounts = [t \in Tasks |-> 0]
    /\ m_tagRunningCounts = [tag \in Tags |-> 0]
    /\ m_tagIncompleteCounts = [tag \in Tags |-> 0]
    /\ tasksOut = {}
    /\ started = {}
    /\ fresh = FALSE
    /\ owed = {}
    /\ call = [op |-> "init", task |-> id_null, query |-> NoQuery, repeat |-> FALSE]
    /\ RegistryIdle
    /\ SkeletonNew

Init == InitState /\ budget = MaxEnqueues

InitAny == InitState /\ budget = MaxAnyCalls

\* ----------------------------------------------------- calls, by a driver
\* The driver of the scheduler (one logical owner): it may enqueue at any
\* time, lists into a zeroed bitset, starts tasks of an up-to-date listing
\* that it has not started yet, and finishes tasks it has started.
Enqueue(query) ==
    /\ task_enqueue(query)
    /\ owed' = owed \cup {t \in Tasks : m_taskQueuedCounts[t] = 0
                                        /\ m_taskQueuedCounts'[t] # 0}
    /\ fresh' = FALSE
    /\ call' = [op |-> "enqueue", task |-> id_null, query |-> query,
                repeat |-> (query = call.query)]
    /\ UNCHANGED <<tagsVars, tasksOut, started, registryVars, skeletonVars>>

ListAvailable(prior) ==
    /\ tasksOut' = task_list_available(prior)
    /\ fresh' = TRUE
    /\ call' = [call EXCEPT !.op = "list", !.task = id_null, !.repeat = FALSE]
    /\ UNCHANGED <<tagsVars, execVars, started, owed, registryVars, skeletonVars>>

Start(task) ==
    /\ task_start(task)
    /\ started' = started \cup {task}
    /\ call' = [call EXCEPT !.op = "start", !.task = task, !.repeat = FALSE]
    /\ UNCHANGED <<tagsVars, tasksOut, fresh, owed, registryVars, skeletonVars>>

Finish(task) ==
    /\ task_finish(task)
    /\ started' = started \ {task}
    /\ owed' = owed \ {task}
    /\ fresh' = FALSE
    /\ call' = [op |-> "finish", task |-> task, query |-> NoQuery, repeat |-> FALSE]
    /\ UNCHANGED <<tagsVars, tasksOut, registryVars, skeletonVars>>

DriverEnqueue ==
    /\ \E query \in SUBSET Tags : Enqueue(query)
    /\ UNCHANGED budget

DriverList ==
    /\ ListAvailable({})
    /\ UNCHANGED budget

DriverStart ==
    /\ \E task \in Tasks :
          /\ fresh
          /\ task \in tasksOut
          /\ task \notin started
          /\ Start(task)
    /\ UNCHANGED budget

DriverFinish ==
    /\ \E task \in Tasks :
          /\ task \in started
          /\ Finish(task)
    /\ UNCHANGED budget

Next ==
    \/ DriverEnqueue
    \/ DriverList
    \/ DriverStart
    \/ DriverFinish

Spec == Init /\ [][Next]_vars

\* ------------------------------------------------ calls, in any order
\* A caller that follows no protocol: any call with any argument at any
\* time, the output bitset holding whatever the caller left in it.  The
\* guards only keep the run within the model's bounds: a run has MaxAnyCalls
\* calls, and a counter that has wrapped or reached the cap is not touched
\* again.
AnyEnqueue ==
    /\ budget > 0
    /\ \E query \in SUBSET Tags : Enqueue(query)
    /\ budget' = budget - 1

AnyList ==
    /\ budget > 0
    /\ \E prior \in SUBSET Tasks : ListAvailable(prior)
    /\ budget' = budget - 1

AnyStart ==
    /\ budget > 0
    /\ \E task \in Tasks :
          /\ \A tag \in m_taskTags[task] : m_tagRunningCounts[tag] < MaxRunning
          /\ Start(task)
    /\ budget' = budget - 1

AnyFinish ==
    /\ budget > 0
    /\ \E task \in Tasks :
          /\ m_taskQueuedCounts[task] <= 1
          /\ \A tag \in m_taskTags[task] :
                /\ m_tagRunningCounts[tag] <= MaxRunning
                /\ m_tagIncompleteCounts[tag] <= NumTasks
          /\ Finish(task)
    /\ budget' = budget - 1

NextAny ==
    \/ AnyEnqueue
    \/ AnyList
    \/ AnyStart
    \/ AnyFinish

SpecAny == InitAny /\ [][NextAny]_vars

\* ------------------------------------- listings into the bitset as it is
\* A caller that follows no protocol and owns the output bitset: it leaves
\* anything in it, and task_list_available gets it as it is.
InitInPlace == InitState /\ budget = MaxInPlaceCalls

CallerFill ==
    /\ \E bits \in SUBSET Tasks :
          /\ bits # tasksOut
          /\ tasksOut' = bits
    /\ fresh' = FALSE
    /\ call' = [call EXCEPT !.op = "fill", !.task = id_null, !.repeat = FALSE]
    /\ UNCHANGED <<tagsVars, execVars, started, owed, budget, registryVars, skeletonVars>>

ListInPlace ==
    /\ budget > 0
    /\ ListAvailable(tasksOut)
    /\ budget' = budget - 1

NextInPlace ==
    \/ AnyEnqueue
    \/ CallerFill
    \/ ListInPlace
    \/ AnyStart
    \/ AnyFinish

SpecInPlace == InitInPlace /\ [][NextInPlace]_vars

\* ---------------------------------------------------------- a drain run
\* A finite enqueue history, and a driver that keeps listing, starting and
\* finishing: each of its three steps is taken if it stays possible.
DrainEnqueue ==
    /\ budget > 0
    /\ \E query \in SUBSET Tags : Enqueue(query)
    /\ budget' = budget - 1

NextDrain ==
    \/ DrainEnqueue
    \/ DriverList
    \/ DriverStart
    \/ DriverFinish

SpecDrain ==
    /\ Init
    /\ [][NextDrain]_vars
    /\ WF_vars(DriverList)
    /\ WF_vars(DriverStart)
    /\ WF_vars(DriverFinish)

\* ------------------------------------------------- calls on an IdRegistry
\* IdRegistry() or IdRegistry(capacity), with or without NO_AUTO_RESIZE
InitRegistry ==
    /\ SchedulerIdle
    /\ budget = 0
    /\ SkeletonNew
    /\ NO_AUTO_RESIZE \in BOOLEAN
    /\ \E n \in 0 .. MaxReserve : \E slack \in 0 .. MaxSlack :
          registry = reserve(IdRegistryNew(0), n, slack)
    /\ RegistryUnused

\* create(); a registry that grows by itself is followed up to MaxIds ids
RegCreate ==
    /\ \/ registry.m_deleted # <<>>
       \/ NO_AUTO_RESIZE
       \/ Len(registry.m_exists) < MaxIds
    /\ \E slack \in 0 .. MaxSlack :
          LET r == create(registry, NO_AUTO_RESIZE, slack) IN
          /\ registry' = r.reg
          /\ ret' = [op |-> "create", id |-> r.id, threw |-> r.threw]
          /\ live' = IF r.threw THEN live ELSE live \cup {r.id}
          /\ removed' = IF r.threw THEN removed
                        ELSE SelectSeq(removed, LAMBDA x : x # r.id)
    /\ UNCHANGED <<NO_AUTO_RESIZE, schedulerVars, budget, skeletonVars>>

\* remove(id), of any id: live, removed before, or never created
RegRemove ==
    /\ \E id \in 0 .. MaxIds :
          LET r == remove(registry, id) IN
          /\ registry' = r.reg
          /\ ret' = [op |-> "remove", id |-> id, threw |-> r.threw]
          /\ live' = live \ {id}
          /\ removed' = IF id \in live THEN Append(removed, id) ELSE removed
    /\ UNCHANGED <<NO_AUTO_RESIZE, schedulerVars, budget, skeletonVars>>

RegReserve ==
    /\ \E n \in 0 .. MaxReserve : \E slack \in 0 .. MaxSlack :
          registry' = reserve(registry, n, slack)
    /\ ret' = [op |-> "reserve", id |-> id_null, threw |-> FALSE]
    /\ UNCHANGED <<NO_AUTO_RESIZE, live, removed, schedulerVars, budget, skeletonVars>>

RegReserveMore ==
    /\ \E n \in 0 .. MaxReserve : \E slack \in 0 .. MaxSlack :
          /\ n + Len(registry.m_exists) - Len(registry.m_deleted) <= MaxReserve
          /\ registry' = reserve_more(registry, n, slack)
    /\ ret' = [op |-> "reserve_more", id |-> id_null, threw |-> FALSE]
    /\ UNCHANGED <<NO_AUTO_RESIZE, live, removed, schedulerVars, budget, skeletonVars>>

NextRegistry ==
    \/ RegCreate
    \/ RegRemove
    \/ RegReserve
    \/ RegReserveMore

SpecRegistry == InitRegistry /\ [][NextRegistry]_vars

\* ---------------------------------------------------- calls on a skeleton
\* ids of the vertices of the skeleton
Vertices == 0 .. (size_required(skeleton.m_vrtxIdTree) - 1)

\* ids of the triangles of the skeleton's groups
Triangles == 0 .. (size_required(skeleton.m_triIds) * 4 - 1)

\* the array of a subdivided triangle: corners v, edge midpoints m (m[1]
\* between v[1] and v[2], m[2] between v[2] and v[3], m[3] between v[3] and
\* v[1]); children top, left, right, center
SubdivArray(v, m) ==
    << <<v[1], m[1], m[3]>>, <<m[1], v[2], m[2]>>,
       <<m[3], m[2], v[3]>>, <<m[2], m[3], m[1]>> >>

\* the arrays tri_group_create is called with: corners and midpoints are
\* any vertices of the skeleton, also the same one several times
TriVertexArrays ==
    LET V == {v \in Vertices : v < MaxTriVrtx} IN
    {SubdivArray(v, m) : v \in [1 .. 3 -> V], m \in [1 .. 3 -> V]}

\* firstChild after the create_or_get calls of a log, from its entry k on
RECURSIVE Learned(_, _, _)
Learned(fc, log, k) ==
    IF k > Len(log) THEN fc
    ELSE LET pair == {log[k].a, log[k].b} IN
         Learned(IF pair \in DOMAIN fc THEN fc
                 ELSE (pair :> [id |-> log[k].id, a |-> log[k].a, b |-> log[k].b]) @@ fc,
                 log, k + 1)

\* what every call on the skeleton leaves behind
Called(op, sk, a, b, level, id, st) ==
    /\ budget > 0
    /\ budget' = budget - 1
    /\ skeleton' = sk
    /\ firstChild' = Learned(firstChild, st.log, 1)
    /\ done' = [op |-> op, a |-> a, b |-> b, level |-> level, id |-> id,
                before |-> size_required(skeleton.m_vrtxIdTree),
                rOut |-> st.rOut, written |-> st.written, log |-> st.log]
    /\ UNCHANGED <<schedulerVars, registryVars, mesh, stack>>

\* a call that is given no array
NoArray(log) == [rOut |-> <<>>, written |-> <<>>, log |-> log]

InitSkeleton ==
    /\ SchedulerIdle
    /\ RegistryIdle
    /\ SkeletonNew
    /\ budget = MaxSkeletonCalls

SkVrtxCreateRoot ==
    /\ size_required(skeleton.m_vrtxIdTree) < MaxVrtx
    /\ \E slack \in 0 .. MaxSlack :
          LET r == vrtx_create_root(skeleton, slack) IN
          /\ Called("vrtx_create_root", r.sk, id_null, id_null, 0, r.id, NoArray(<<>>))
          /\ holds' = Resize(holds, size_required(r.sk.m_vrtxIdTree), 0)

\* vrtx_create_or_get_child(a, b) of two vertices of the skeleton
SkVrtxCreateOrGetChild ==
    \E a, b \in Vertices : \E slack \in 0 .. MaxSlack :
        LET r == vrtx_create_or_get_child(skeleton, a, b, slack) IN
        /\ size_required(r.sk.m_vrtxIdTree) <= MaxVrtx
        /\ Called("vrtx_create_or_get_child", r.sk, a, b, 0, r.id,
                  NoArray(<<[a |-> a, b |-> b, id |-> r.id, fresh |-> r.created]>>))
        /\ holds' = Resize(holds, size_required(r.sk.m_vrtxIdTree), 0)

\* vrtx_create_chunk_edge_recurse(level, a, b, rOut) with an array of
\* 2^level - 1 elements
SkVrtxCreateChunkEdge ==
    \E level \in 1 .. MaxLevel : \E a, b \in Vertices : \E slack \in 0 .. MaxSlack :
        LET n == 2 ^ level - 1
            st0 == [sk |-> skeleton,
                    rOut |-> [i \in 1 .. n |-> id_null],
                    written |-> [i \in 1 .. n |-> 0],
                    log |-> <<>>]
        IN  \E st \in {vrtx_create_chunk_edge_recurse(st0, level, a, b, 0, n, slack)} :
            /\ size_required(st.sk.m_vrtxIdTree) <= MaxVrtx
            /\ Called("vrtx_create_chunk_edge_recurse", st.sk, a, b, level, id_null, st)
            /\ holds' = Resize(holds, size_required(st.sk.m_vrtxIdTree), 0)

\* tri_group_create(depth, parent, vertices) with vertices of the skeleton;
\* done keeps the parent as a, the depth as level and the twelve ids as rOut
SkTriGroupCreate ==
    /\ size_required(skeleton.m_triIds) < MaxGroups
    /\ \E depth \in 0 .. 1 : \E parent \in {id_null, 0} :
       \E vertices \in TriVertexArrays : \E slack \in 0 .. MaxSlack :
          LET r == tri_group_create(skeleton, depth, parent, vertices, slack) IN
          /\ Called("tri_group_create", r.sk, parent, id_null, depth, r.id,
                    [NoArray(<<>>) EXCEPT !.rOut = GroupVertices(vertices)])
          /\ UNCHANGED holds

\* an outside holder takes a hold on a vertex
SkVrtxRefcountAdd ==
    \E v \in Vertices :
        /\ holds[v + 1] < MaxHolds
        /\ Called("vrtx_refcount_add", vrtx_refcount_add(skeleton, v),
                  id_null, id_null, 0, v, NoArray(<<>>))
        /\ holds' = [holds EXCEPT ![v + 1] = @ + 1]

\* an outside holder gives up a hold it has
SkVrtxRefcountRemove ==
    \E v \in Vertices :
        /\ holds[v + 1] > 0
        /\ Called("vrtx_refcount_remove", vrtx_refcount_remove(skeleton, v),
                  id_null, id_null, 0, v, NoArray(<<>>))
        /\ holds' = [holds EXCEPT ![v + 1] = @ - 1]

\* the vertex tree: roots, children and chunk edges
NextSkeleton ==
    \/ SkVrtxCreateRoot
    \/ SkVrtxCreateOrGetChild
    \/ SkVrtxCreateChunkEdge

SpecSkeleton == InitSkeleton /\ [][NextSkeleton]_vars

\* vertices, triangle groups and outside holders that give up only holds
\* they have
NextTriangles ==
    \/ SkVrtxCreateRoot
    \/ SkVrtxCreateOrGetChild
    \/ SkTriGroupCreate
    \/ SkVrtxRefcountAdd
    \/ SkVrtxRefcountRemove

SpecTriangles == InitSkeleton /\ [][NextTriangles]_vars

\* ------------------------------------- reference counts, called in any way
\* vrtx_refcount_add of any vertex, whatever its count
AnyVrtxRefcountAdd ==
    \E v \in Vertices :
        /\ Called("vrtx_refcount_add", vrtx_refcount_add(skeleton, v),
                  id_null, id_null, 0, v, NoArray(<<>>))
        /\ holds' = [holds EXCEPT ![v + 1] = @ + 1]

\* vrtx_refcount_remove of any vertex, whatever its count
AnyVrtxRefcountRemove ==
    \E v \in Vertices :
        /\ Called("vrtx_refcount_remove", vrtx_refcount_remove(skeleton, v),
                  id_null, id_null, 0, v, NoArray(<<>>))
        /\ holds' = [holds EXCEPT ![v + 1] = IF @ > 0 THEN @ - 1 ELSE 0]

AnyTriRefcountAdd ==
    \E t \in Triangles :
        /\ Called("tri_refcount_add", tri_refcount_add(skeleton, t),
                  id_null, id_null, 0, t, NoArray(<<>>))
        /\ UNCHANGED holds

AnyTriRefcountRemove ==
    \E t \in Triangles :
        /\ Called("tri_refcount_remove", tri_refcount_remove(skeleton, t),
                  id_null, id_null, 0, t, NoArray(<<>>))
        /\ UNCHANGED holds

NextSkeletonAny ==
    \/ SkVrtxCreateRoot
    \/ SkTriGroupCreate
    \/ AnyVrtxRefcountAdd
    \/ AnyVrtxRefcountRemove
    \/ AnyTriRefcountAdd
    \/ AnyTriRefcountRemove

SpecSkeletonAny == InitSkeleton /\ [][NextSkeletonAny]_vars

\* ------------------------------------------- one vertex with many children
\* two roots, then child after child of vertex 0
InitManyChildren ==
    /\ SchedulerIdle
    /\ RegistryIdle
    /\ SkeletonNew
    /\ budget = MaxChildren + 2

ManyVrtxCreateRoot ==
    /\ size_required(skeleton.m_vrtxIdTree) < 2
    /\ \E slack \in 0 .. MaxSlack :
          LET r == vrtx_create_root(skeleton, slack) IN
          /\ Called("vrtx_create_root", r.sk, id_null, id_null, 0, r.id, NoArray(<<>>))
          /\ holds' = Resize(holds, size_required(r.sk.m_vrtxIdTree), 0)

\* vrtx_create_or_get_child(0, b) with b the newest vertex
ManyVrtxCreateOrGetChild ==
    /\ size_required(skeleton.m_vrtxIdTree) >= 2
    /\ \E slack \in 0 .. MaxSlack :
          \E r \in {vrtx_create_or_get_child(
                        skeleton, 0, size_required(skeleton.m_vrtxIdTree) - 1, slack)} :
              /\ Called("vrtx_create_or_get_child", r.sk,
                        0, size_required(skeleton.m_vrtxIdTree) - 1, 0, r.id,
                        NoArray(<<[a |-> 0, b |-> size_required(skeleton.m_vrtxIdTree) - 1,
                                   id |-> r.id, fresh |-> r.created]>>))
              /\ holds' = Resize(holds, size_required(r.sk.m_vrtxIdTree), 0)

NextManyChildren ==
    \/ ManyVrtxCreateRoot
    \/ ManyVrtxCreateOrGetChild

SpecManyChildren == InitManyChildren /\ [][NextManyChildren]_vars

\* --------------------------------------------- the vertex tree, any id given
\* vrtx_create_or_get_child(a, b) with any two ids, created or not.  An id
\* past the end of m_idChildCount after the child's creation is undefined
\* behaviour: the call returns, or the program is terminated and no call
\* follows.
AnyVrtxCreateOrGetChild ==
    /\ budget > 0
    /\ \E a, b \in 0 .. MaxAnyId : \E slack \in 0 .. MaxSlack :
        \E r \in {vrtx_create_or_get_child(skeleton, a, b, slack)} :
            /\ size_required(r.sk.m_vrtxIdTree) <= MaxVrtx
            /\ \/ /\ Called("vrtx_create_or_get_child", r.sk, a, b, 0, r.id,
                            NoArray(<<[a |-> a, b |-> b, id |-> r.id, fresh |-> r.created]>>))
                  /\ holds' = Resize(holds, size_required(r.sk.m_vrtxIdTree), 0)
               \/ /\ r.created
                  /\ \E p \in {a, b} : p >= size_required(r.sk.m_vrtxIdTree)
                  /\ budget > 0
                  /\ budget' = 0
                  /\ done' = [NoCall EXCEPT !.op = "terminated", !.a = a, !.b = b]
                  /\ UNCHANGED <<skeleton, holds, firstChild, mesh, stack, schedulerVars, registryVars>>

InitTreeAny ==
    /\ SchedulerIdle
    /\ RegistryIdle
    /\ SkeletonNew
    /\ budget = MaxTreeAnyCalls

NextTreeAny ==
    \/ SkVrtxCreateRoot
    \/ AnyVrtxCreateOrGetChild

SpecTreeAny == InitTreeAny /\ [][NextTreeAny]_vars

\* ------------------------------------------------------ triangle id encoding
\* the three functions applied to any group id, sibling index, triangle id
InitTriId ==
    /\ SchedulerIdle
    /\ RegistryIdle
    /\ SkeletonNew
    /\ budget = 0

CallTriId ==
    /\ \E g \in 0 .. (UIntMod - 1) : \E siblingIndex \in 0 .. MaxSiblingArg :
          done' = [NoCall EXCEPT !.op = "tri_id", !.a = g, !.b = siblingIndex,
                                 !.id = tri_id(g, siblingIndex)]
    /\ UNCHANGED <<schedulerVars, budget, registryVars, skeleton, holds, firstChild, mesh, stack>>

CallTriGroupId ==
    /\ \E t \in 0 .. (UIntMod - 1) :
          done' = [NoCall EXCEPT !.op = "tri_group_id", !.a = t, !.id = tri_group_id(t)]
    /\ UNCHANGED <<schedulerVars, budget, registryVars, skeleton, holds, firstChild, mesh, stack>>

CallTriSiblingIndex ==
    /\ \E t \in 0 .. (UIntMod - 1) :
          done' = [NoCall EXCEPT !.op = "tri_sibling_index", !.a = t,
                                 !.id = tri_sibling_index(t)]
    /\ UNCHANGED <<schedulerVars, budget, registryVars, skeleton, holds, firstChild, mesh, stack>>

NextTriId ==
    \/ CallTriId
    \/ CallTriGroupId
    \/ CallTriSiblingIndex

SpecTriId == InitTriId /\ [][NextTriId]_vars

\* -------------------------------------------------------------- subdivision
\* variant that subdivides a triangle again
tri_subdiv_Again(sk, triId, vrtxMid, slack) ==
    LET tri == tri_at(sk, triId)
        r == tri_group_create(sk, sk.m_triData[tri_group_id(triId) + 1].m_depth + 1,
                              triId, SubdivArray(tri.m_vertices, vrtxMid), slack)
    IN  [sk |-> [r.sk EXCEPT
                    !.m_triData[tri_group_id(triId) + 1]
                         .m_triangles[tri_sibling_index(triId) + 1].m_children = r.id],
         id |-> r.id, threw |-> FALSE]

\* variant that gives the child group the depth of its parent
tri_subdiv_SameDepth(sk, triId, vrtxMid, slack) ==
    LET tri == tri_at(sk, triId)
        depth == sk.m_triData[tri_group_id(triId) + 1].m_depth
    IN  IF \/ tri.m_children # id_null
           \/ depth + 1 > 255
           \/ \E i \in 1 .. 3 : \/ ~exists(sk.m_vrtxIdTree, tri.m_vertices[i])
                                \/ ~exists(sk.m_vrtxIdTree, vrtxMid[i])
        THEN [sk |-> sk, id |-> id_null, threw |-> TRUE]
        ELSE LET r == tri_group_create(sk, depth, triId,
                                       SubdivArray(tri.m_vertices, vrtxMid), slack)
             IN  [sk |-> [r.sk EXCEPT
                             !.m_triData[tri_group_id(triId) + 1]
                                  .m_triangles[tri_sibling_index(triId) + 1].m_children = r.id],
                  id |-> r.id, threw |-> FALSE]

\* tri_subdiv(triId, vrtxMid): a child group one level deeper, made of the
\* triangle's corners and the given midpoints, recorded as the triangle's
\* children; an InvariantViolation, and nothing changed, for a triangle that
\* has children, a depth that does not fit its 8 bits, or a vertex not live
tri_subdiv(sk, triId, vrtxMid, slack) ==
    LET tri == tri_at(sk, triId)
        depth == sk.m_triData[tri_group_id(triId) + 1].m_depth
    IN  IF \/ tri.m_children # id_null
           \/ depth + 1 > 255
           \/ \E i \in 1 .. 3 : \/ ~exists(sk.m_vrtxIdTree, tri.m_vertices[i])
                                \/ ~exists(sk.m_vrtxIdTree, vrtxMid[i])
        THEN [sk |-> sk, id |-> id_null, threw |-> TRUE]
        ELSE LET r == tri_group_create(sk, depth + 1, triId,
                                       SubdivArray(tri.m_vertices, vrtxMid), slack)
             IN  [sk |-> [r.sk EXCEPT
                             !.m_triData[tri_group_id(triId) + 1]
                                  .m_triangles[tri_sibling_index(triId) + 1].m_children = r.id],
                  id |-> r.id, threw |-> FALSE]

\* tri_subdiv(triId, vrtxMid) of a triangle of the skeleton; done keeps the
\* triangle as a, the midpoints as rOut, and id_null as id when the call threw
SkTriSubdiv ==
    /\ budget > 0
    /\ \E triId \in Triangles :
       \E vrtxMid \in [1 .. 3 -> {v \in Vertices : v < MaxTriVrtx}] :
       \E slack \in 0 .. MaxSlack :
          \E r \in {tri_subdiv(skeleton, triId, vrtxMid, slack)} :
              /\ size_required(r.sk.m_triIds) <= MaxSubdivGroups
              /\ Called("tri_subdiv", r.sk, triId, id_null, 0, r.id,
                        [NoArray(<<>>) EXCEPT !.rOut = vrtxMid])
              /\ UNCHANGED holds

NextSubdiv ==
    \/ SkVrtxCreateRoot
    \/ SkTriGroupCreate
    \/ SkTriSubdiv

SpecSubdiv == InitSkeleton /\ [][NextSubdiv]_vars

\* ------------------------------------------------------------------- chunks
\* a skeleton as the caller builds one before it makes chunks: four root
\* vertices and one group whose triangles are the faces of a tetrahedron, so
\* that any two of them share an edge
TetrahedronSkeleton ==
    LET r0 == vrtx_create_root(SubdivTriangleSkeletonNew, 0)
        r1 == vrtx_create_root(r0.sk, 0)
        r2 == vrtx_create_root(r1.sk, 0)
        r3 == vrtx_create_root(r2.sk, 0)
    IN  tri_group_create(r3.sk, 0, id_null,
                         << <<0, 1, 2>>, <<1, 0, 3>>, <<2, 3, 0>>, <<3, 2, 1>> >>, 0).sk

InitChunks ==
    /\ SchedulerIdle
    /\ RegistryIdle
    /\ skeleton = TetrahedronSkeleton
    /\ holds = <<0, 0, 0, 0>>
    /\ firstChild = <<>>
    /\ done = NoCall
    /\ \E level \in 1 .. MaxChunkLevel : mesh = ChunkedTriangleMeshNew(level)
    /\ stack = <<>>
    /\ budget = MaxChunks

\* an array of n elements, nothing written to it, for a chunk edge
EdgeArray(sk, log, n) ==
    [sk |-> sk, rOut |-> [i \in 1 .. n |-> id_null],
     written |-> [i \in 1 .. n |-> 0], log |-> log]

\* the caller makes the three chunk edges of a triangle, from corner 0 to 1,
\* 1 to 2 and 2 to 0, and then the chunk; done keeps the triangle as a, the
\* chunk as id and the skeleton vertices of the chunk as rOut
ChunkCreate ==
    /\ budget > 0
    /\ budget' = budget - 1
    /\ \E center \in Triangles : \E slack \in 0 .. MaxSlack :
       LET v == tri_at(skeleton, center).m_vertices
           n == 2 ^ mesh.m_level - 1
       IN  \E eA \in {vrtx_create_chunk_edge_recurse(
                         EdgeArray(skeleton, <<>>, n), mesh.m_level, v[1], v[2], 0, n, slack)} :
           \E eB \in {vrtx_create_chunk_edge_recurse(
                         EdgeArray(eA.sk, eA.log, n), mesh.m_level, v[2], v[3], 0, n, slack)} :
           \E eC \in {vrtx_create_chunk_edge_recurse(
                         EdgeArray(eB.sk, eB.log, n), mesh.m_level, v[3], v[1], 0, n, slack)} :
           \E r \in {chunk_create(mesh, eC.sk, center, eA.rOut, eB.rOut, eC.rOut, slack)} :
               /\ skeleton' = eC.sk
               /\ holds' = Resize(holds, size_required(eC.sk.m_vrtxIdTree), 0)
               /\ firstChild' = Learned(firstChild, eC.log, 1)
               /\ mesh' = r.mesh
               /\ done' = [op |-> "chunk_create", a |-> center, b |-> id_null,
                           level |-> mesh.m_level, id |-> r.id,
                           before |-> size_required(skeleton.m_vrtxIdTree),
                           rOut |-> v \o eA.rOut \o eB.rOut \o eC.rOut,
                           written |-> <<>>, log |-> eC.log]
    /\ UNCHANGED <<schedulerVars, registryVars, stack>>

NextChunks == ChunkCreate

SpecChunks == InitChunks /\ [][NextChunks]_vars

\* ------------------------------------------------------ vertex reservation
\* SubdivIdTree::reserve(n): the registry reserves, then m_idToParents and
\* m_idChildCount reserve IdRegistry<ID_T>::capacity() (no size changes)
SubdivIdTree_reserve(tree, n, slack) == reserve(tree, n, slack)

SubdivIdTree_reserve_more(tree, n, slack) == reserve_more(tree, n, slack)

\* the frame on top of the call stack
Top == stack[Len(stack)]

\* frames of vrtx_reserve / vrtx_reserve_more: line is the statement the
\* frame is at, got the value its capacity() call returned
ReserveFrames == {"vrtx_reserve", "vrtx_reserve_more"}

CapacityFrame == [fn |-> "SubdivIdTree::capacity", jumped |-> FALSE]

\* values a size_t can hold, as far as the run tells them apart
SizeValues == 0 .. (MaxReserve + MaxVrtx + MaxSlack + 1)

InitReserve ==
    /\ SchedulerIdle
    /\ RegistryIdle
    /\ SkeletonNew
    /\ budget = MaxReserveCalls

\* the caller creates a root vertex between two reservations
ReserveCreateRoot ==
    /\ stack = <<>>
    /\ size_required(skeleton.m_vrtxIdTree) < MaxReserve
    /\ \E slack \in 0 .. MaxSlack :
          \E r \in {vrtx_create_root(skeleton, slack)} :
              /\ skeleton' = r.sk
              /\ holds' = Resize(holds, size_required(r.sk.m_vrtxIdTree), 0)
              /\ done' = [NoCall EXCEPT !.op = "vrtx_create_root", !.id = r.id,
                                        !.before = size_required(skeleton.m_vrtxIdTree)]
    /\ UNCHANGED <<schedulerVars, budget, registryVars, firstChild, mesh, stack>>

\* vrtx_reserve(n), first statement: m_vrtxIdTree.reserve(n)
VrtxReserve ==
    /\ budget > 0
    /\ stack = <<>>
    /\ \E n \in 0 .. MaxReserve : \E slack \in 0 .. MaxSlack :
          /\ skeleton' = [skeleton EXCEPT
                             !.m_vrtxIdTree = SubdivIdTree_reserve(@, n, slack)]
          /\ stack' = <<[fn |-> "vrtx_reserve", n |-> n, line |-> 246, got |-> id_null]>>
          /\ done' = [NoCall EXCEPT !.op = "vrtx_reserve", !.a = n,
                                    !.before = capacity(skeleton.m_vrtxIdTree)]
    /\ budget' = budget - 1
    /\ UNCHANGED <<schedulerVars, registryVars, holds, firstChild, mesh>>

\* vrtx_reserve_more(n), first statement: m_vrtxIdTree.reserve_more(n)
VrtxReserveMore ==
    /\ budget > 0
    /\ stack = <<>>
    /\ \E n \in 0 .. MaxReserve : \E slack \in 0 .. MaxSlack :
          /\ skeleton' = [skeleton EXCEPT
                             !.m_vrtxIdTree = SubdivIdTree_reserve_more(@, n, slack)]
          /\ stack' = <<[fn |-> "vrtx_reserve_more", n |-> n, line |-> 252, got |-> id_null]>>
          /\ done' = [NoCall EXCEPT !.op = "vrtx_reserve_more", !.a = n,
                                    !.before = capacity(skeleton.m_vrtxIdTree)]
    /\ budget' = budget - 1
    /\ UNCHANGED <<schedulerVars, registryVars, holds, firstChild, mesh>>

\* second statement of both: the argument m_vrtxIdTree.capacity() is called
VrtxReserveCallsCapacity ==
    /\ stack # <<>>
    /\ Top.fn \in ReserveFrames
    /\ Top.got = id_null
    /\ stack' = Append(stack, CapacityFrame)
    /\ UNCHANGED <<schedulerVars, budget, registryVars, skeleton, holds, firstChild, done, mesh>>

\* SubdivIdTree::capacity() const { return capacity(); }: unqualified name
\* lookup finds the member itself, so the body is a call of the same function
CapacitySelfCall ==
    /\ stack # <<>>
    /\ Top = CapacityFrame
    /\ Len(stack) < MaxStackDepth
    /\ stack' = Append(stack, CapacityFrame)
    /\ UNCHANGED <<schedulerVars, budget, registryVars, skeleton, holds, firstChild, done, mesh>>

\* the recursion has used up the stack: the process is ended
CapacityStackOverflow ==
    /\ stack # <<>>
    /\ Top = CapacityFrame
    /\ Len(stack) = MaxStackDepth
    /\ stack' = <<[fn |-> "terminated", jumped |-> FALSE]>>
    /\ done' = [done EXCEPT !.op = "terminated"]
    /\ budget' = 0
    /\ UNCHANGED <<schedulerVars, registryVars, skeleton, holds, firstChild, mesh>>

\* a build that makes the tail call a jump: the frame is used again, for
\* ever, and nothing else changes
CapacitySelfJump ==
    /\ Len(stack) = 2
    /\ Top = CapacityFrame
    /\ stack' = [stack EXCEPT ![2].jumped = TRUE]
    /\ UNCHANGED <<schedulerVars, budget, registryVars, skeleton, holds, firstChild, done, mesh>>

\* a build that takes the endless recursion (no side effect, undefined) as
\* unreachable: control leaves the function with whatever the register holds
CapacityReturnsAny ==
    /\ Len(stack) = 2
    /\ Top = CapacityFrame
    /\ \E v \in SizeValues :
          stack' = <<[stack[1] EXCEPT !.got = v]>>
    /\ UNCHANGED <<schedulerVars, budget, registryVars, skeleton, holds, firstChild, done, mesh>>

\* m_vrtxRefCount.reserve(value): no size changes; the call returns
VrtxReserveReturn ==
    /\ stack # <<>>
    /\ Top.fn \in ReserveFrames
    /\ Top.got # id_null
    /\ stack' = <<>>
    /\ done' = [done EXCEPT !.id = Top.got]
    /\ UNCHANGED <<schedulerVars, budget, registryVars, skeleton, holds, firstChild, mesh>>

ReserveStep ==
    \/ VrtxReserveCallsCapacity
    \/ CapacitySelfCall
    \/ CapacityStackOverflow
    \/ CapacitySelfJump
    \/ CapacityReturnsAny
    \/ VrtxReserveReturn

NextReserve ==
    \/ ReserveCreateRoot
    \/ VrtxReserve
    \/ VrtxReserveMore
    \/ ReserveStep

\* a call that has begun keeps running: its next statement is executed
SpecReserve == InitReserve /\ [][NextReserve]_vars /\ WF_vars(ReserveStep)

\* --------------------------------------------------------- pair encoding
\* hash_id_combination applied to any two ids of the width
InitHash ==
    /\ SchedulerIdle
    /\ RegistryIdle
    /\ SkeletonNew
    /\ budget = 0

CallHashIdCombination ==
    /\ \E a, b \in 0 .. (UIntMod - 1) :
          done' = [NoCall EXCEPT !.op = "hash_id_combination", !.a = a, !.b = b,
                                 !.id = hash_id_combination_int(a, b)]
    /\ UNCHANGED <<schedulerVars, budget, registryVars, skeleton, holds, firstChild, mesh, stack>>

NextHash == CallHashIdCombination

SpecHash == InitHash /\ [][NextHash]_vars

\* ------------------------------------------------------------ properties
\* tasks with a pending request, as the counters record it
QueuedTasks == {t \in Tasks : m_taskQueuedCounts[t] > 0}

\* a counter value in the upper half of the unsigned range is a wrapped one
Wrapped(c) == c >= UIntMod \div 2

AllCountersZero ==
    /\ \A t \in Tasks : m_taskQueuedCounts[t] = 0
    /\ \A tag \in Tags : m_tagRunningCounts[tag] = 0 /\ m_tagIncompleteCounts[tag] = 0

\* C1: dependency ordering.  If tag T1 declares a dependency on tag T2, a
\* listing never marks a task carrying T1 while incomplete[T2] > 0, that is
\* while a task carrying T2 that was enqueued has not been finished.
C1_DependencyOrdering ==
    (call.op = "list") =>
        \A t \in tasksOut : \A T1 \in m_taskTags[t] : \A T2 \in DeclaredDepends(T1) :
            /\ m_tagIncompleteCounts[T2] = 0
            /\ \A u \in owed : T2 \notin m_taskTags[u]

\* a listing that held back a queued task because another enqueued task
\* carries a tag it depends on
C1_Witness ==
    /\ call.op = "list"
    /\ \E t \in owed \ tasksOut : \E T1 \in m_taskTags[t] : \E T2 \in DeclaredDepends(T1) :
          \E u \in (owed \cap tasksOut) \ {t} : T2 \in m_taskTags[u]

C5_ListAvailableExact ==
    (call.op = "list") =>
        tasksOut = {t \in Tasks :
                       /\ m_taskQueuedCounts[t] > 0
                       /\ \A tag \in m_taskTags[t] : \A d \in DeclaredDepends(tag) :
                              m_tagIncompleteCounts[d] = 0}

\* a listing that held back a queued task carrying one allowed and one
\* disallowed tag, and reported another task
C5_Witness ==
    /\ call.op = "list"
    /\ tasksOut # {}
    /\ \E t \in QueuedTasks \ tasksOut : \E a, b \in m_taskTags[t] :
          /\ \A d \in DeclaredDepends(a) : m_tagIncompleteCounts[d] = 0
          /\ \E d \in DeclaredDepends(b) : m_tagIncompleteCounts[d] # 0

\* one step, as C6_EnqueueEffect requires it
C6_EnqueueEffectStep ==
    (call'.op = "enqueue") =>
        LET query == call'.query
            hit == {t \in Tasks : m_taskQueuedCounts[t] = 0
                                  /\ \E tag \in m_taskTags[t] : tag \in query}
        IN  /\ \A t \in Tasks :
                  m_taskQueuedCounts'[t] = IF t \in hit THEN 1 ELSE m_taskQueuedCounts[t]
            /\ \A tag \in Tags :
                  m_tagIncompleteCounts'[tag] =
                      m_tagIncompleteCounts[tag]
                          + Cardinality({t \in hit : tag \in m_taskTags[t]})
            /\ \A t \in Tasks :
                  (m_taskTags[t] = {}) => (m_taskQueuedCounts'[t] = 0)

\* C6: effect of task_enqueue.  Every task with queued == 0 whose tags
\* intersect the query gets queued = 1 and adds one to incomplete of every
\* tag it carries, also of tags outside the query; every other queued count
\* is unchanged, so a task without tags is never queued.
C6_EnqueueEffect == [][C6_EnqueueEffectStep]_vars

\* an enqueue queued a task that also carries a tag outside the query, next
\* to a task without tags
C6_Witness ==
    /\ call.op = "enqueue"
    /\ started = {}
    /\ \E t \in owed : /\ (m_taskTags[t] \cap call.query) # {}
                       /\ \E tag \in m_taskTags[t] \ call.query :
                              m_tagIncompleteCounts[tag] = 1
    /\ \E u \in Tasks : m_taskTags[u] = {} /\ m_taskQueuedCounts[u] = 0

\* one step, as C7_ReenqueueIdempotent requires it
C7_ReenqueueStep ==
    (call'.op = "enqueue" /\ call'.repeat) =>
        UNCHANGED <<m_taskQueuedCounts, m_tagIncompleteCounts>>

\* C7: re-enqueue idempotence.  An enqueue with the query of the previous
\* enqueue, with no finish in between, changes no queued and no incomplete
\* counter.
C7_ReenqueueIdempotent == [][C7_ReenqueueStep]_vars

\* the same query was enqueued twice while a task it queued is still queued
C7_Witness ==
    /\ call.op = "enqueue"
    /\ call.repeat
    /\ \E t \in owed : (m_taskTags[t] \cap call.query) # {}

\* C9: from all-zero counters, once every task an enqueue queued has been
\* started and finished in an order the listings permitted, all queued,
\* running and incomplete counters are zero again.
C9_DrainedCountersZero ==
    (call.op = "finish" /\ owed = {} /\ started = {}) => AllCountersZero

\* the last of two queued tasks was finished, the second one depending on
\* the first
C9_Witness ==
    /\ call.op = "finish"
    /\ owed = {}
    /\ started = {}
    /\ \E T1 \in m_taskTags[call.task] : \E T2 \in DeclaredDepends(T1) :
          \E u \in Tasks \ {call.task} : T2 \in m_taskTags[u]

\* one step, as C10_ReenqueueWhileRunning requires it
C10_ReenqueueRunningStep ==
    /\ (call'.op = "enqueue") =>
          \A t \in started :
              ((m_taskTags[t] \cap call'.query) # {}) =>
                  /\ m_taskQueuedCounts'[t] = m_taskQueuedCounts[t]
                  /\ m_tagRunningCounts' = m_tagRunningCounts
                  /\ \A tag \in m_taskTags[t] :
                        m_tagIncompleteCounts'[tag] =
                            m_tagIncompleteCounts[tag]
                                + Cardinality({u \in Tasks \ {t} :
                                                  /\ m_taskQueuedCounts[u] = 0
                                                  /\ m_taskQueuedCounts'[u] # 0
                                                  /\ tag \in m_taskTags[u]})
    /\ (call'.op = "finish" /\ execVars' # execVars) =>
          m_taskQueuedCounts'[call'.task] = 0
    /\ \A t \in Tasks :
          (m_taskQueuedCounts[t] = 0 /\ m_taskQueuedCounts'[t] # 0) =>
              (call'.op = "enqueue" /\ (m_taskTags[t] \cap call'.query) # {})

\* C10: re-enqueue while running.  An enqueue whose query matches a started,
\* unfinished task leaves that task's queued count and all running counts
\* alone and adds nothing for it to the incomplete counts; finish returns
\* the queued count to 0, and only an enqueue matching the task moves it
\* from 0 to queued again.
C10_ReenqueueWhileRunning == [][C10_ReenqueueRunningStep]_vars

\* an enqueue matched a started task while it was still running
C10_Witness ==
    /\ call.op = "enqueue"
    /\ \E t \in started : /\ (m_taskTags[t] \cap call.query) # {}
                          /\ m_taskQueuedCounts[t] = 1

\* the tags reachable from a tag along declared dependencies, n levels deep
RECURSIVE DependsWithin(_, _)
DependsWithin(S, n) ==
    IF n = 0 THEN S
    ELSE DependsWithin(S \cup UNION {DeclaredDepends(tag) : tag \in S}, n - 1)

TagGraphAcyclic ==
    \A tag \in Tags : tag \notin DependsWithin(DeclaredDepends(tag), NumTags)

AllIdle == \A t \in Tasks : m_taskQueuedCounts[t] = 0

\* the tasks a task waits for: those carrying a tag that one of its own
\* tags declares as a dependency (the task itself included, if it does)
WaitsFor(t) ==
    {u \in Tasks : \E T1 \in m_taskTags[t] : \E T2 \in DeclaredDepends(T1) :
                      T2 \in m_taskTags[u]}

RECURSIVE WaitsWithin(_, _)
WaitsWithin(S, n) ==
    IF n = 0 THEN S
    ELSE WaitsWithin(S \cup UNION {WaitsFor(t) : t \in S}, n - 1)

TaskWaitsAcyclic ==
    \A t \in Tasks : t \notin WaitsWithin(WaitsFor(t), NumTasks)

\* C2 (as claimed): drain liveness.  With an acyclic tag-dependency graph,
\* after any enqueue history, listing, starting and finishing the returned
\* tasks reaches a state where every queued count is 0 and stays there.
C2_DrainLiveness == TagGraphAcyclic => <>[]AllIdle

\* C2 (amended): drain liveness holds when no task waits for itself,
\* directly (it carries a tag and a dependency of that tag) or through
\* other tasks.
C2_DrainLivenessTasks == TaskWaitsAcyclic => <>[]AllIdle

\* the enqueue history is over and a task was finished last that waited for
\* the other task, leaving nothing queued
C2_Witness ==
    /\ TaskWaitsAcyclic
    /\ budget = 0
    /\ call.op = "finish"
    /\ AllIdle
    /\ WaitsFor(call.task) # {}

\* one step, as C8_FinishUnderflowSurfaced requires it
C8_FinishMisuseStep ==
    (/\ call'.op = "finish"
     /\ \/ m_taskQueuedCounts[call'.task] = 0
        \/ \E tag \in m_taskTags[call'.task] :
               m_tagRunningCounts[tag] = 0 \/ m_tagIncompleteCounts[tag] = 0)
        => UNCHANGED execVars

\* C8: task_finish never lets a counter underflow silently.  A finish of a
\* task with queued == 0, or with a tag whose running or incomplete count is
\* 0, is reported and decrements nothing.
C8_FinishUnderflowSurfaced == [][C8_FinishMisuseStep]_vars

\* C11: dependencies are checked one level deep.  If T3 declares only T2 as
\* a dependency and T2 declares T1, a listing reports a queued task carrying
\* only T3 whenever incomplete[T2] = 0, whatever incomplete[T1] is.
C11_OneLevelDeep ==
    (call.op = "list") =>
        \A t \in QueuedTasks : \A T3, T2, T1 \in Tags :
            (/\ m_taskTags[t] = {T3}
             /\ DeclaredDepends(T3) = {T2}
             /\ T1 \in DeclaredDepends(T2)
             /\ m_tagIncompleteCounts[T2] = 0)
                => t \in tasksOut

\* a listing reported a task carrying only T3 while a queued task carrying
\* T1 keeps incomplete[T1] above zero, T3 depending on T2 and T2 on T1
C11_Witness ==
    /\ call.op = "list"
    /\ \E t \in QueuedTasks \cap tasksOut : \E T3, T2, T1 \in Tags :
          /\ Cardinality({T1, T2, T3}) = 3
          /\ m_taskTags[t] = {T3}
          /\ DeclaredDepends(T3) = {T2}
          /\ T1 \in DeclaredDepends(T2)
          /\ m_tagIncompleteCounts[T2] = 0
          /\ m_tagIncompleteCounts[T1] > 0
          /\ \E u \in QueuedTasks \ {t} : T1 \in m_taskTags[u]

\* no tag carried by one of the two tasks declares a tag carried by one of
\* them as a dependency
NoDependencyBetween(t, u) ==
    LET carried == m_taskTags[t] \cup m_taskTags[u] IN
    \A tag \in carried : (DeclaredDepends(tag) \cap carried) = {}

\* C12: parallel tasks.  When the two queued tasks carry tags with no
\* dependency between them, one listing reports both; both may be started
\* before either is finished, in either order, every running count being
\* the number of started tasks carrying the tag, and once both are finished
\* all counters are zero.
C12_ParallelTasks ==
    /\ (call.op = "list") =>
          \A t, u \in Tasks :
              (t # u /\ QueuedTasks = {t, u} /\ NoDependencyBetween(t, u))
                  => {t, u} \subseteq tasksOut
    /\ \A tag \in Tags :
          m_tagRunningCounts[tag] =
              Cardinality({t \in started : tag \in m_taskTags[t]})
    /\ (owed = {} /\ started = {}) => AllCountersZero

\* both tasks of one listing are running at once, sharing a tag, the task
\* with the higher id started first
C12_Witness ==
    /\ call.op = "start"
    /\ \E t, u \in started :
          /\ t < u
          /\ call.task = t
          /\ {t, u} \subseteq tasksOut
          /\ NoDependencyBetween(t, u)
          /\ (m_taskTags[t] \cap m_taskTags[u]) # {}
          /\ m_taskTags[t] # m_taskTags[u]

\* number of set bits of the liveness bitmap
LiveCount(reg) == Cardinality({i \in 1 .. Len(reg.m_exists) : reg.m_exists[i]})

\* one step, as C14_RegistryInvariant requires it
C14_RegistryStep ==
    /\ LiveCount(registry') + Len(registry'.m_deleted) = size_required(registry')
    /\ (ret'.op = "create" /\ ~ret'.threw) =>
          /\ ret'.id \notin live
          /\ ~exists(registry, ret'.id)

\* C14: IdRegistry invariant.  After every create and remove the number of
\* set bits of m_exists plus the length of m_deleted is size_required(), and
\* create never returns an id that is live when it is called.
C14_RegistryInvariant == [][C14_RegistryStep]_vars

\* a create reused a freed id while other ids are live and another id is
\* still on the freed stack
C14_Witness ==
    /\ ret.op = "create"
    /\ ~ret.threw
    /\ ret.id + 1 < size_required(registry)
    /\ Len(registry.m_deleted) = 1
    /\ LiveCount(registry) >= 2

\* one step, as C15_SlotReuse requires it
C15_SlotReuseStep ==
    /\ (ret'.op = "create") =>
          IF registry.m_deleted # <<>>
          THEN /\ ~ret'.threw
               /\ removed # <<>>
               /\ ret'.id = removed[Len(removed)]
               /\ size_required(registry') = size_required(registry)
          ELSE ~ret'.threw => ret'.id = size_required(registry)
    /\ (ret.op = "remove" /\ ~ret.threw /\ ret'.op = "create") =>
          /\ ~ret'.threw
          /\ ret'.id = ret.id
          /\ size_required(registry') = size_required(registry)

\* C15: slot reuse.  create() returns the most recently removed id when the
\* freed stack is not empty and the high-water mark otherwise; a create
\* right after remove(id) returns id and leaves size_required() unchanged.
C15_SlotReuse == [][C15_SlotReuseStep]_vars

\* a create right after a remove returned the id just removed, while an id
\* removed earlier stays on the freed stack
C15_Witness ==
    /\ ret.op = "create"
    /\ ~ret.threw
    /\ Len(removed) = 1
    /\ ret.id # removed[1]
    /\ ret.id + 1 < size_required(registry)
    /\ ret.id \in live

\* one step, as C16_RemoveNotLive requires it
C16_RemoveNotLiveStep ==
    /\ (ret'.op = "remove" /\ ret'.id \notin live) =>
          /\ ret'.threw
          /\ registry'.m_exists = registry.m_exists
          /\ registry'.m_deleted = registry.m_deleted
    /\ \A i, j \in 1 .. Len(registry'.m_deleted) :
          (registry'.m_deleted[i] = registry'.m_deleted[j]) => (i = j)

\* C16: remove of an id that is not live (removed before, or never created)
\* is reported and leaves m_exists and m_deleted unchanged, so no slot is
\* twice on the freed stack.
C16_RemoveNotLive == [][C16_RemoveNotLiveStep]_vars

\* an id on the freed stack was removed a second time
C16_Witness ==
    /\ ret.op = "remove"
    /\ ret.threw
    /\ \E i \in 1 .. Len(registry.m_deleted) : registry.m_deleted[i] = ret.id

\* one step, as C17_CapacityExceeded requires it
C17_CapacityStep ==
    (NO_AUTO_RESIZE /\ ret'.op = "create") =>
        /\ ret'.threw <=> (/\ registry.m_deleted = <<>>
                           /\ size_required(registry) = capacity(registry))
        /\ ret'.threw => (/\ registry'.m_exists = registry.m_exists
                          /\ registry'.m_deleted = registry.m_deleted)

\* C17: with NO_AUTO_RESIZE, create() fails exactly when the freed stack is
\* empty and size_required() equals capacity(); a failed create leaves
\* m_exists and m_deleted unchanged, and a create that reuses a freed slot
\* succeeds at full capacity.
C17_CapacityExceeded == [][C17_CapacityStep]_vars

\* a create failed on a full registry whose slots are all live
C17_Witness ==
    /\ NO_AUTO_RESIZE
    /\ ret.op = "create"
    /\ ret.threw
    /\ capacity(registry) > 1
    /\ size_required(registry) = capacity(registry)
    /\ LiveCount(registry) = capacity(registry)

\* the create_or_get calls of a log, from its entry k on, agree with the
\* calls made before them: fresh exactly for a pair not asked for before,
\* and the id of the pair's first call otherwise
RECURSIVE Consistent(_, _, _)
Consistent(fc, log, k) ==
    IF k > Len(log) THEN TRUE
    ELSE LET pair == {log[k].a, log[k].b} IN
         /\ log[k].fresh <=> (pair \notin DOMAIN fc)
         /\ (pair \in DOMAIN fc) => (log[k].id = fc[pair].id)
         /\ Consistent(Learned(fc, <<log[k]>>, 1), log, k + 1)

\* one step, as C13_PairSymmetry requires it
C13_PairSymmetryStep == Consistent(firstChild, done'.log, 1)

\* C13: pair symmetry.  Every create_or_get(a, b) returns the id that the
\* first call for the unordered pair {a, b} returned, in whichever order
\* the two ids are given, and its flag is true for that first call only.
C13_PairSymmetry == [][C13_PairSymmetryStep]_vars

\* a child was asked for again with its two parents in the other order
C13_Witness ==
    /\ done.op = "vrtx_create_or_get_child"
    /\ done.a # done.b
    /\ ~done.log[1].fresh
    /\ firstChild[{done.a, done.b}].a = done.b
    /\ firstChild[{done.a, done.b}].b = done.a
    /\ firstChild[{done.a, done.b}].id = done.id

\* the child recorded for a pair of vertices
Child(fc, a, b) == IF {a, b} \in DOMAIN fc THEN fc[{a, b}].id ELSE id_null

\* the midpoint sequence between a and b, level levels deep
RECURSIVE Midpoints(_, _, _, _)
Midpoints(fc, level, a, b) ==
    IF level = 0 THEN <<>>
    ELSE Midpoints(fc, level - 1, a, Child(fc, a, b))
             \o <<Child(fc, a, b)>>
             \o Midpoints(fc, level - 1, Child(fc, a, b), b)

\* one step, as C18_ChunkEdgeFilled requires it
C18_ChunkEdgeStep ==
    (done'.op = "vrtx_create_chunk_edge_recurse") =>
        /\ Len(done'.rOut) = 2 ^ done'.level - 1
        /\ \A i \in 1 .. Len(done'.rOut) :
              done'.written[i] = 1 /\ done'.rOut[i] \in 0 .. (size_required(skeleton'.m_vrtxIdTree) - 1)
        /\ done'.rOut[(Len(done'.rOut) \div 2) + 1] = Child(firstChild', done'.a, done'.b)
        /\ done'.rOut = Midpoints(firstChild', done'.level, done'.a, done'.b)

\* C18: vrtx_create_chunk_edge_recurse(L, a, b, out) with out of length
\* 2^L - 1 writes every slot once; out[size/2] is the child of (a, b) and
\* each half is the midpoint sequence of its endpoints (for L = 2:
\* out[1] = m = child(a, b), out[0] = child(a, m), out[2] = child(m, b)).
C18_ChunkEdgeFilled == [][C18_ChunkEdgeStep]_vars

\* a chunk edge of level 2 between two different vertices gave three
\* different vertices, all of them new
C18_Witness ==
    /\ done.op = "vrtx_create_chunk_edge_recurse"
    /\ done.level = 2
    /\ done.a # done.b
    /\ Cardinality({done.rOut[i] : i \in 1 .. 3}) = 3
    /\ size_required(skeleton.m_vrtxIdTree) = done.before + 3

\* ids of the triangle groups that are live
LiveGroups ==
    {g \in 0 .. (size_required(skeleton.m_triIds) - 1) : skeleton.m_triIds.m_exists[g + 1]}

\* the triangle slots of live groups that mention a vertex
SlotsMentioning(v) ==
    {<<g, i, j>> \in LiveGroups \X (1 .. 4) \X (1 .. 3) :
        skeleton.m_triData[g + 1].m_triangles[i].m_vertices[j] = v}

\* C19: after any sequence of vertex creations, tri_group_create calls and
\* outside vrtx_refcount_add / vrtx_refcount_remove calls, the reference
\* count of every vertex is the number of triangle slots of live groups that
\* mention it plus the outside holds outstanding.
C19_RefCountHolders ==
    /\ Len(skeleton.m_vrtxRefCount) = size_required(skeleton.m_vrtxIdTree)
    /\ \A v \in Vertices :
          skeleton.m_vrtxRefCount[v + 1] = Cardinality(SlotsMentioning(v)) + holds[v + 1]

\* one step, as C20_RefCountsNeverWrap requires it
C20_RefCountStep ==
    /\ (done'.op = "vrtx_refcount_add" /\ skeleton.m_vrtxRefCount[done'.id + 1] = 255)
          => skeleton'.m_vrtxRefCount = skeleton.m_vrtxRefCount
    /\ (done'.op = "vrtx_refcount_remove" /\ skeleton.m_vrtxRefCount[done'.id + 1] = 0)
          => skeleton'.m_vrtxRefCount = skeleton.m_vrtxRefCount
    /\ (done'.op = "tri_refcount_add" /\ skeleton.m_triRefCount[done'.id + 1] = 255)
          => skeleton'.m_triRefCount = skeleton.m_triRefCount
    /\ (done'.op = "tri_refcount_remove" /\ skeleton.m_triRefCount[done'.id + 1] = 0)
          => skeleton'.m_triRefCount = skeleton.m_triRefCount

\* C20: reference counts never wrap.  vrtx_refcount_add on a count of 255
\* and vrtx_refcount_remove on a count of 0 leave the count unchanged, and
\* so do tri_refcount_add and tri_refcount_remove.
C20_RefCountsNeverWrap == [][C20_RefCountStep]_vars

\* the child count a fresh create_or_get(a, b) must leave for parent p: one
\* more per argument that is p, and the old count where that does not fit
\* the 8 bits (the call is an error and changes nothing)
ChildCountAfter(count, a, b, p) ==
    LET n == count[p + 1] + (IF a = p THEN 1 ELSE 0) + (IF b = p THEN 1 ELSE 0)
    IN  IF n > 255 THEN count[p + 1] ELSE n

\* one step, as C21_ChildCountNeverWraps requires it
C21_ChildCountStep ==
    (done'.op = "vrtx_create_or_get_child" /\ done'.log[1].fresh) =>
        \A p \in {done'.a, done'.b} :
            skeleton'.m_vrtxIdTree.m_idChildCount[p + 1] =
                ChildCountAfter(skeleton.m_vrtxIdTree.m_idChildCount, done'.a, done'.b, p)

\* C21: a fresh create_or_get(a, b) increments the child count of each
\* parent by one, and the 8-bit child count never wraps: the 256th child of
\* a node does not reset the node's child count to 0.
C21_ChildCountNeverWraps == [][C21_ChildCountStep]_vars

\* the nodes that have parents recorded, and the ids recorded for them
NonRootNodes(tree) == {tree.m_parentsToId[c] : c \in DOMAIN tree.m_parentsToId}

ParentsLive(tree) ==
    \A n \in NonRootNodes(tree) :
        \A i \in 1 .. 2 : exists(tree, tree.m_idToParents[n + 1][i])

\* one step, as C22_ParentsExist requires it
C22_ParentsExistStep ==
    /\ ParentsLive(skeleton'.m_vrtxIdTree)
    /\ (/\ done'.op = "vrtx_create_or_get_child"
        /\ \E p \in {done'.a, done'.b} : ~exists(skeleton.m_vrtxIdTree, p))
          => skeleton'.m_vrtxIdTree = skeleton.m_vrtxIdTree

\* C22: in every reachable state both parents recorded for a non-root node
\* are live ids of the tree, and create_or_get(a, b) with an a or b that was
\* never created inserts no child.
C22_ParentsExist == [][C22_ParentsExistStep]_vars

\* C26: the triangle id encoding round-trips.  For a group id g and a
\* sibling index s in 0 .. 3 with g * 4 + s within the width,
\* tri_group_id(tri_id(g, s)) = g and tri_sibling_index(tri_id(g, s)) = s;
\* for a triangle id t, tri_id(tri_group_id(t), tri_sibling_index(t)) = t.
C26_TriIdRoundTrip ==
    /\ (/\ done.op = "tri_id"
        /\ done.b \in 0 .. 3
        /\ done.a * 4 + done.b < UIntMod)
          => /\ done.id = done.a * 4 + done.b
             /\ tri_group_id(done.id) = done.a
             /\ tri_sibling_index(done.id) = done.b
    /\ (done.op = "tri_group_id")
          => tri_id(done.id, tri_sibling_index(done.a)) = done.a
    /\ (done.op = "tri_sibling_index")
          => tri_id(tri_group_id(done.a), done.id) = done.a

\* the largest triangle id of the width was encoded from its group and
\* sibling index
C26_Witness ==
    /\ done.op = "tri_id"
    /\ done.b = 3
    /\ done.a > 0
    /\ done.id = UIntMod - 1

\* how often an id is listed in a sequence of ids
TimesListed(ids, v) == Cardinality({k \in 1 .. Len(ids) : ids[k] = v})

\* one step, as C25_GroupCreate requires it
C25_GroupCreateStep ==
    (done'.op = "tri_group_create") =>
        /\ size_required(skeleton'.m_triIds) = size_required(skeleton.m_triIds) + 1
        /\ done'.id = size_required(skeleton.m_triIds)
        /\ exists(skeleton'.m_triIds, done'.id)
        /\ \A g \in 0 .. (size_required(skeleton.m_triIds) - 1) :
              skeleton'.m_triData[g + 1] = skeleton.m_triData[g + 1]
        /\ skeleton'.m_triData[done'.id + 1].m_depth = done'.level
        /\ skeleton'.m_triData[done'.id + 1].m_parent = done'.a
        /\ \A i \in 1 .. 4 :
              /\ skeleton'.m_triData[done'.id + 1].m_triangles[i].m_children = id_null
              /\ \A j \in 1 .. 3 :
                    skeleton'.m_triData[done'.id + 1].m_triangles[i].m_vertices[j]
                        = done'.rOut[(i - 1) * 3 + j]
        /\ Len(done'.rOut) = 12
        /\ \A v \in Vertices :
              skeleton'.m_vrtxRefCount[v + 1]
                  = skeleton.m_vrtxRefCount[v + 1] + TimesListed(done'.rOut, v)

\* C25: tri_group_create(depth, parent, vertices) allocates one group id,
\* stores the depth and the parent, stores the four vertex triples with no
\* child group on any triangle, and adds one reference per array entry,
\* twelve in all: a vertex listed k times gains k references.
C25_GroupCreate == [][C25_GroupCreateStep]_vars

\* a group was created at depth 1 from an array that lists one vertex
\* several times and another one once, the first of them held from outside
C25_Witness ==
    /\ done.op = "tri_group_create"
    /\ done.level = 1
    /\ done.a = 0
    /\ \E v, w \in Vertices :
          /\ TimesListed(done.rOut, v) >= 3
          /\ TimesListed(done.rOut, w) = 1
          /\ holds[v + 1] = 1
          /\ skeleton.m_vrtxRefCount[v + 1] = TimesListed(done.rOut, v) + 1

\* one step, as C23_SubdivChildGroup requires it: v are the corners of the
\* triangle before the call, m the midpoints given, g the group returned
C23_SubdivStep ==
    (done'.op = "tri_subdiv" /\ done'.id # id_null) =>
        LET v == tri_at(skeleton, done'.a).m_vertices
            m == done'.rOut
            g == skeleton'.m_triData[done'.id + 1]
        IN  /\ size_required(skeleton'.m_triIds) = size_required(skeleton.m_triIds) + 1
            /\ done'.id = size_required(skeleton.m_triIds)
            /\ g.m_depth = skeleton.m_triData[tri_group_id(done'.a) + 1].m_depth + 1
            /\ g.m_parent = done'.a
            /\ g.m_triangles[1].m_vertices = <<v[1], m[1], m[3]>>
            /\ g.m_triangles[2].m_vertices = <<m[1], v[2], m[2]>>
            /\ g.m_triangles[3].m_vertices = <<m[3], m[2], v[3]>>
            /\ g.m_triangles[4].m_vertices = <<m[2], m[3], m[1]>>
            /\ tri_at(skeleton', done'.a).m_children = done'.id
            /\ \A t \in Triangles \ {done'.a} :
                  tri_at(skeleton', t).m_children = tri_at(skeleton, t).m_children

\* C23: tri_subdiv(tri, [m01, m12, m20]) on a triangle (v0, v1, v2) creates
\* exactly one child group, at the parent's depth + 1 and with parent tri,
\* with child 0 = {v0, m01, m20}, child 1 = {m01, v1, m12},
\* child 2 = {m20, m12, v2}, child 3 = {m12, m20, m01}, and records the group
\* as the children of tri.
C23_SubdivChildGroup == [][C23_SubdivStep]_vars

\* a triangle of a group of depth 1 was subdivided, its corners and the
\* midpoints given being not all the same vertex
C23_Witness ==
    /\ done.op = "tri_subdiv"
    /\ done.id = 1
    /\ skeleton.m_triData[2].m_depth = 2
    /\ tri_at(skeleton, done.a).m_children = 1
    /\ Cardinality({done.rOut[i] : i \in 1 .. 3}) = 2
    /\ Cardinality({tri_at(skeleton, done.a).m_vertices[i] : i \in 1 .. 3}) = 2
    /\ skeleton.m_triData[2].m_triangles[4].m_vertices # skeleton.m_triData[2].m_triangles[1].m_vertices

\* one step, as C24_NoDoubleSubdiv requires it
C24_NoDoubleSubdivStep ==
    (/\ done'.op = "tri_subdiv"
     /\ tri_at(skeleton, done'.a).m_children # id_null)
        => /\ done'.id = id_null
           /\ skeleton' = skeleton

\* C24: tri_subdiv on a triangle that has a child group fails and changes
\* nothing: no second group, the child-group link as it was, no vertex
\* reference count changed.
C24_NoDoubleSubdiv == [][C24_NoDoubleSubdivStep]_vars

\* tri_subdiv was called on a triangle that had children, and refused
C24_Witness ==
    /\ done.op = "tri_subdiv"
    /\ done.id = id_null
    /\ tri_at(skeleton, done.a).m_children # id_null
    /\ size_required(skeleton.m_triIds) = 2

\* the chunks and the shared vertices of a mesh that are live
LiveChunks(m) == {c \in 0 .. (size_required(m.m_chunkIds) - 1) : exists(m.m_chunkIds, c)}

LiveShared(m) == {sh \in 0 .. (size_required(m.m_sharedIds) - 1) : exists(m.m_sharedIds, sh)}

\* the chunks that have a shared vertex among theirs
ChunksTouching(m, sh) ==
    {c \in LiveChunks(m) : \E i \in 1 .. Len(m.m_chunkShared[c + 1]) :
                               m.m_chunkShared[c + 1][i] = sh}

\* one step, as C27_SharedVertexDedup requires it
C27_SharedVertexStep ==
    (done'.op = "chunk_create") =>
        /\ Len(mesh'.m_chunkShared[done'.id + 1]) = Len(done'.rOut)
        /\ \A i \in 1 .. Len(done'.rOut) :
              /\ mesh'.m_chunkShared[done'.id + 1][i] \in LiveShared(mesh')
              /\ mesh'.m_sharedToSkel[mesh'.m_chunkShared[done'.id + 1][i] + 1] = done'.rOut[i]
        /\ \A s1, s2 \in LiveShared(mesh') :
              (mesh'.m_sharedToSkel[s1 + 1] = mesh'.m_sharedToSkel[s2 + 1]) => (s1 = s2)
        /\ \A sh \in LiveShared(mesh') :
              mesh'.m_sharedRefCount[sh + 1] = Cardinality(ChunksTouching(mesh', sh))
        /\ \A sh \in LiveShared(mesh') \ LiveShared(mesh) :
              mesh'.m_sharedRefCount[sh + 1] = 1

\* C27: shared-vertex deduplication.  After chunk_create for neighbouring
\* chunks, each skeleton vertex of a chunk maps to exactly one SharedVrtxId,
\* the reference count of a shared vertex is the number of chunks touching
\* it (2 for the inner vertices of an edge two chunks share), and a shared
\* vertex first created by a chunk has reference count 1.
C27_SharedVertexDedup == [][C27_SharedVertexStep]_vars

\* two chunks of level 2 on two triangles that share an edge: the two
\* corners and the three inner vertices of that edge are held twice, the
\* other vertices of the second chunk once
C27_Witness ==
    /\ done.op = "chunk_create"
    /\ done.level = 2
    /\ done.id = 1
    /\ mesh.m_chunkShared[1] # mesh.m_chunkShared[2]
    /\ Cardinality({sh \in LiveShared(mesh) : mesh.m_sharedRefCount[sh + 1] = 2}) = 5
    /\ Cardinality({sh \in LiveShared(mesh) : mesh.m_sharedRefCount[sh + 1] = 1}) = 14

\* what task_list_available reports into a zeroed bitset
ListedNow == task_list_available({})

\* one step, as C28_StartOnlyRunning requires it
C28_StartStep ==
    (call'.op = "start") =>
        /\ \A tag \in Tags :
              m_tagRunningCounts'[tag] =
                  m_tagRunningCounts[tag] + (IF tag \in m_taskTags[call'.task] THEN 1 ELSE 0)
        /\ m_taskQueuedCounts' = m_taskQueuedCounts
        /\ m_tagIncompleteCounts' = m_tagIncompleteCounts
        /\ ListedNow' = ListedNow
        /\ call'.task \in ListedNow'

\* C28: task_start changes only running counters: running[tag] + 1 for each
\* tag the task carries, every queued and incomplete counter as it was; so
\* task_list_available reports the same before and after task_start, the
\* started task included.
C28_StartOnlyRunning == [][C28_StartStep]_vars

\* a second task was started on a tag that was running already, while a
\* tag that only the first task carries is counted as running once
C28_Witness ==
    /\ call.op = "start"
    /\ call.task \in ListedNow
    /\ \E tag \in m_taskTags[call.task] : m_tagRunningCounts[tag] = 2
    /\ \E tag \in Tags \ m_taskTags[call.task] :
          m_tagRunningCounts[tag] = 1 /\ m_tagIncompleteCounts[tag] = 1

\* the tasks eligible to run: queued, and every declared dependency of
\* every tag they carry complete
EligibleTasks ==
    {t \in Tasks :
        /\ m_taskQueuedCounts[t] > 0
        /\ \A tag \in m_taskTags[t] : \A d \in DeclaredDepends(tag) :
               m_tagIncompleteCounts[d] = 0}

\* one step, as C29_ListOnlySetsBits requires it
C29_ListStep ==
    (call'.op = "list") =>
        /\ UNCHANGED <<tagsVars, execVars>>
        /\ tasksOut \subseteq tasksOut'
        /\ tasksOut' = tasksOut \cup EligibleTasks
        /\ (tasksOut = {}) => (tasksOut' = EligibleTasks)

\* C29: task_list_available never modifies the ExecutionContext and only
\* sets bits of the output bitset: the output is the union of what the
\* bitset held and the eligible tasks, so it is the eligible set for an
\* all-zero bitset and need not be for another.
C29_ListOnlySetsBits == [][C29_ListStep]_vars

\* a listing into a bitset that held the bit of a task that is not
\* eligible: the bit is still set, next to the bit of an eligible task
C29_Witness ==
    /\ call.op = "list"
    /\ EligibleTasks # {}
    /\ tasksOut \ EligibleTasks # {}
    /\ EligibleTasks \subseteq tasksOut

\* one step, as C30_ChildGetLeavesCounts requires it
C30_ChildGetStep ==
    (done'.op = "vrtx_create_or_get_child") =>
        IF done'.log[1].fresh
        THEN /\ done'.id = size_required(skeleton.m_vrtxIdTree)
             /\ size_required(skeleton'.m_vrtxIdTree) = size_required(skeleton.m_vrtxIdTree) + 1
             /\ skeleton'.m_vrtxRefCount[done'.id + 1] = 0
             /\ \A v \in Vertices : skeleton'.m_vrtxRefCount[v + 1] = skeleton.m_vrtxRefCount[v + 1]
        ELSE /\ done'.id \in Vertices
             /\ skeleton'.m_vrtxRefCount = skeleton.m_vrtxRefCount
             /\ skeleton'.m_vrtxIdTree.m_idChildCount = skeleton.m_vrtxIdTree.m_idChildCount
             /\ size_required(skeleton'.m_vrtxIdTree) = size_required(skeleton.m_vrtxIdTree)
             /\ skeleton' = skeleton

\* C30: vrtx_create_or_get_child(a, b) sets the reference count to 0 only
\* for a vertex it newly creates; when the child of {a, b} exists, the call
\* returns it and leaves every vertex reference count, every child count
\* and size_required() as they were.
C30_ChildGetLeavesCounts == [][C30_ChildGetStep]_vars

\* the child of a pair was asked for again while it was held from outside
C30_Witness ==
    /\ done.op = "vrtx_create_or_get_child"
    /\ ~done.log[1].fresh
    /\ holds[done.id + 1] = 1
    /\ skeleton.m_vrtxRefCount[done.id + 1] = 1
    /\ skeleton.m_vrtxIdTree.m_idChildCount[done.a + 1] > 0

\* a sequence back to front
Reverse(seq) == [i \in 1 .. Len(seq) |-> seq[Len(seq) + 1 - i]]

\* one step, as C31_EdgeReversed requires it: the call follows the call
\* with the same level and the endpoints the other way round
C31_EdgeReversedStep ==
    (/\ done.op = "vrtx_create_chunk_edge_recurse"
     /\ done'.op = "vrtx_create_chunk_edge_recurse"
     /\ done'.level = done.level
     /\ done'.a = done.b
     /\ done'.b = done.a)
        => /\ Len(done'.rOut) = Len(done.rOut)
           /\ \A i \in 0 .. (Len(done.rOut) - 1) :
                 done'.rOut[i + 1] = done.rOut[(2 ^ done.level - 2 - i) + 1]
           /\ done'.rOut = Reverse(done.rOut)

\* C31: edge sharing between neighbours.  For every level L and vertices
\* a, b, vrtx_create_chunk_edge_recurse(L, b, a, out2) gives the exact
\* reverse of what vrtx_create_chunk_edge_recurse(L, a, b, out1) gives
\* (out2[i] = out1[2^L - 2 - i]), whichever of the two calls runs first.
C31_EdgeReversed == [][C31_EdgeReversedStep]_vars

\* the edge between two different vertices was made from the smaller to the
\* larger id and then the other way round, three
\* different vertices on it
C31_Witness ==
    /\ done.op = "vrtx_create_chunk_edge_recurse"
    /\ done.level = 2
    /\ done.a > done.b
    /\ firstChild[{done.a, done.b}].a = done.b
    /\ firstChild[{done.a, done.b}].b = done.a
    /\ Cardinality({done.rOut[i] : i \in 1 .. 3}) = 3
    /\ done.rOut[1] # done.rOut[3]
    /\ size_required(skeleton.m_vrtxIdTree) = done.before
    /\ \A k \in 1 .. Len(done.log) : ~done.log[k].fresh

\* one step, as C32_EdgeIdempotent requires it: the call follows the call
\* with the same level and endpoints
C32_EdgeIdempotentStep ==
    (/\ done.op = "vrtx_create_chunk_edge_recurse"
     /\ done'.op = "vrtx_create_chunk_edge_recurse"
     /\ done'.level = done.level
     /\ done'.a = done.a
     /\ done'.b = done.b)
        => /\ done'.rOut = done.rOut
           /\ size_required(skeleton'.m_vrtxIdTree) = size_required(skeleton.m_vrtxIdTree)
           /\ skeleton'.m_vrtxIdTree.m_idChildCount = skeleton.m_vrtxIdTree.m_idChildCount
           /\ \A k \in 1 .. Len(done'.log) : ~done'.log[k].fresh
           /\ skeleton' = skeleton

\* C32: edge recursion is idempotent.  A second
\* vrtx_create_chunk_edge_recurse(L, a, b, out) with the same L, a, b
\* writes the same vertex ids and creates no vertex: size_required() and
\* all child counts are as the first call left them.
C32_EdgeIdempotent == [][C32_EdgeIdempotentStep]_vars

\* an edge of level 2 between two different vertices was made a second time
C32_Witness ==
    /\ done.op = "vrtx_create_chunk_edge_recurse"
    /\ done.level = 2
    /\ done.a # done.b
    /\ firstChild[{done.a, done.b}].a = done.a
    /\ firstChild[{done.a, done.b}].b = done.b
    /\ Cardinality({done.rOut[i] : i \in 1 .. 3}) = 3
    /\ size_required(skeleton.m_vrtxIdTree) = done.before
    /\ \A k \in 1 .. Len(done.log) : ~done.log[k].fresh

\* under C33 the value reserved for m_vrtxRefCount by a call that returned
\* is the capacity of the registry in m_vrtxIdTree
C33_ReturnsRegistryCapacity ==
    (stack = <<>> /\ done.op \in ReserveFrames)
        => done.id = capacity(skeleton.m_vrtxIdTree)

\* C33: SubdivIdTree::capacity() terminates and returns the capacity of the
\* underlying registry, so vrtx_reserve(n) and vrtx_reserve_more(n), which
\* call it, always terminate: a call that has begun returns.
C33_ReserveTerminates == (stack # <<>>) ~> (stack = <<>>)

\* what termination of capacity() needs: no call of capacity() is ever
\* made from inside capacity()
C33_CapacityNotReentered ==
    Cardinality({i \in 1 .. Len(stack) : stack[i].fn = "SubdivIdTree::capacity"}) <= 1

\* C34: hash_id_combination(a, b) places max(a, b) in the low half and
\* min(a, b) in the high half of the key (32 and 32 bits of 64 for 32-bit
\* ids); key(a, b) = key(b, a), and two different unordered pairs of ids
\* never share a key.
C34_PairKey ==
    (done.op = "hash_id_combination") =>
        /\ done.id % UIntMod = (IF done.a > done.b THEN done.a ELSE done.b)
        /\ done.id \div UIntMod = (IF done.a > done.b THEN done.b ELSE done.a)
        /\ done.id < CombinationMod
        /\ hash_id_combination_int(done.b, done.a) = done.id
        /\ \A c, d \in 0 .. (UIntMod - 1) :
              (hash_id_combination_int(c, d) = done.id) => ({c, d} = {done.a, done.b})
        /\ hash_id_combination(done.a, done.b)
              = <<done.id \div UIntMod, done.id % UIntMod>>

\* the key of a small id given first and the largest id of the width
C34_Witness ==
    /\ done.op = "hash_id_combination"
    /\ done.a = 1
    /\ done.b = UIntMod - 1
    /\ done.id = UIntMod + (UIntMod - 1)

====
